---- MODULE Spec2Model ----
(***************************************************************************)
(* A model of the request-routing core of JARVIS:                          *)
(*   - EngineSelector.generateStream (src/src/router/Router.ts) with the   *)
(*     two engines it drives, VllmEngine (heavy) and LocalLlamaEngine;     *)
(*   - SessionManager, the transcript registry                             *)
(*     (src/src/session/SessionManager.ts);                                *)
(*   - getSession, the llama context registry (same file);                 *)
(*   - the POST /chat handler (src/src/index.ts);                          *)
(*   - Router.classify (src/src/router/Router.ts) with                     *)
(*     DeviceActions.parseCommand and executeCommand                       *)
(*     (src/src/tools/WebFetch.ts);                                        *)
(*   - the health operations of the engines and of EngineSelector;         *)
(*   - ConversationHandler, the speech output                              *)
(*     (src/src/conversation/ConversationHandler.ts);                      *)
(*   - WebFetch.fetchUrl (src/src/tools/WebFetch.ts).                      *)
(* Each component has its own specification (SpecRouter, SpecSessions,     *)
(* SpecLlama, SpecChat, SpecClassify, SpecHealth, SpecSpeech, SpecFetch)   *)
(* over the shared variables; SpecRegistries runs the two registries side  *)
(* by side, SpecChatGate leaves the tokens out of SpecChat; Spec composes  *)
(* the components.                                                         *)
(***************************************************************************)
EXTENDS Integers, Sequences, FiniteSets, TLC

VARIABLES
  \* ---- EngineSelector / engines ----
  fallback_enabled, \* policy.policy.fallback_enabled
  heavyEngine,      \* TRUE iff this.heavyEngine is not null
  gpc,              \* position of the generateStream call
  rclass,           \* routeResult.class of the call's prompt
  devCmd,           \* TRUE iff routeResult.deviceCommand is set
  tier,             \* getEngineTier(routeResult.class), "none" before it is computed
  attempt,          \* "none" | "first" | "fallback": which try block runs
  events,           \* the events yielded to the caller so far
  heavyCalls,       \* invocations of heavyEngine.generateStream in this call
  localCalls,       \* invocations of localEngine.generateStream in this call
  hTokens,          \* VllmEngine: tokensOut (firstMs is null iff it is 0)
  hErr,             \* VllmEngine: an error is pending behind the finally block
  lErr,             \* LocalLlamaEngine: session.prompt rejected in this call
  thrown,           \* the errors the engine invocations of this call have thrown
  raisedErr,        \* the error generateStream raised to its caller
  models,           \* policy.models: the generation defaults of each tier
  callArgs,         \* the arguments of the generateStream call
  engineArgs,       \* the arguments of this call's engine invocations, in order
  \* ---- SessionManager ----
  sessions,         \* the Map, as the sequence of its entries in insertion order
  now,              \* Date.now()
  hist,             \* history of the operations made, for the statements below
  \* ---- getSession ----
  llamaSessions,    \* the Map, as the sequence of its entries in insertion order
  calls,            \* the getSession calls in flight, by slot
  nextCtx,          \* the next context createCtx will build
  ret,              \* the pair the getSession step just taken returned
  \* ---- POST /chat ----
  reqs,             \* the /chat requests in flight, by slot
  served,           \* the /chat requests received so far
  replies,          \* the appendAssistant calls the /chat handler made, in order
  rejected,         \* the /chat requests answered with status 400 so far
  \* ---- Router.classify ----
  typed,            \* the text entered so far, as the sequence of its characters
  nPieces,          \* the pieces of text it was made of
  routeResult,      \* what classify(typed) returned, NoResult before the call
  \* ---- health ----
  vllmServer,       \* how the vLLM server answers GET /health: "ok", "not_ok", "unreachable"
  model,            \* TRUE iff LocalLlamaEngine.model is not null
  health,           \* what the health operation just made returned
  \* ---- ConversationHandler ----
  tts,              \* the configuration: "new" before construction, then "elevenlabs", "macos" or "off"
  isSpeaking,       \* this.isSpeaking
  speaks,           \* the processAndSpeak calls in flight, by slot
  stopPc,           \* position of the stopSpeaking call
  \* ---- WebFetch.fetchUrl ----
  fetching          \* the fetchUrl call: its position, loop variables and what it did so far

routerVars  == <<fallback_enabled, heavyEngine, gpc, rclass, devCmd, tier, attempt,
                 events, heavyCalls, localCalls, hTokens, hErr, lErr, thrown, raisedErr,
                 models, callArgs, engineArgs>>
sessionVars == <<sessions, now, hist>>
llamaVars   == <<llamaSessions, calls, nextCtx, ret>>
chatVars    == <<reqs, served, replies, rejected>>
classifyVars == <<typed, nPieces, routeResult>>
healthVars  == <<vllmServer, model, health>>
speechVars  == <<tts, isSpeaking, speaks, stopPc>>
fetchVars   == <<fetching>>
vars        == <<routerVars, sessionVars, llamaVars, chatVars, classifyVars, healthVars,
                 speechVars, fetchVars>>

\* what the actions of one component leave alone (the /chat handler works on
\* the sessions too)
toolVars        == <<speechVars, fetchVars>>
notRouterVars   == <<sessionVars, llamaVars, chatVars, classifyVars, healthVars, toolVars>>
notSessionVars  == <<routerVars, llamaVars, chatVars, classifyVars, healthVars, toolVars>>
notLlamaVars    == <<routerVars, sessionVars, chatVars, classifyVars, healthVars, toolVars>>
notChatVars     == <<routerVars, llamaVars, classifyVars, healthVars, toolVars>>
notClassifyVars == <<routerVars, sessionVars, llamaVars, chatVars, healthVars, toolVars>>
notHealthVars   == <<routerVars, sessionVars, llamaVars, chatVars, classifyVars, toolVars>>
notSpeechVars   == <<routerVars, sessionVars, llamaVars, chatVars, classifyVars, healthVars,
                     fetchVars>>
notFetchVars    == <<routerVars, sessionVars, llamaVars, chatVars, classifyVars, healthVars,
                     speechVars>>

(***************************************************************************)
(* Bounds of the model                                                     *)
(***************************************************************************)
\* tokens one heavy-engine stream carries at most
MaxTokens == 2
\* SessionManager.maxSessions, scaled down from 100 (SessionManager.ts:16)
maxSessions == 2
\* the clock stops advancing here
MaxNow == 3
\* user and assistant messages appended over a run, at most
MaxAppends == 1
\* the capacity of llamaSessions, scaled down from 50 (SessionManager.ts:147)
maxContexts == 2
\* getSession calls in flight at once, at most
MaxSlots == 2
\* contexts the factory builds over a run, at most
MaxCtx == 3
\* /chat requests being handled at once, at most
MaxReqs == 2
\* /chat requests accepted over a run, at most
MaxChats == 2
\* the session ids the /chat requests carry: 1..MaxChatIds
MaxChatIds == 2
\* pieces of text an input to classify is made of, at most
MaxPieces == 3
\* processAndSpeak calls in flight at a time, at most
MaxSpeaks == 3
\* the values of options.maxRetries: 0..MaxRetries
MaxRetries == 3

(***************************************************************************)
(* Program constants                                                       *)
(***************************************************************************)
\* SessionManager.sessionTimeoutMs: 30 minutes, the clock counting in ticks of
\* 15 minutes
sessionTimeoutMs == 2

(***************************************************************************)
(* Router.getEngineTier and the types of Router.ts                         *)
(***************************************************************************)
RouteClass == {"direct_command", "trivial", "normal", "hard"}

getEngineTier_TrivialPrimary(routeClass) ==
  CASE routeClass = "direct_command" -> "router"
    [] routeClass \in {"trivial", "normal"} -> "primary"
    [] routeClass = "hard" -> "heavy"
    [] OTHER -> "primary"
getEngineTier(routeClass) ==
  CASE routeClass \in {"direct_command", "trivial"} -> "router"
    [] routeClass = "normal" -> "primary"
    [] routeClass = "hard" -> "heavy"
    [] OTHER -> "primary"

Ev(type, src) == [type |-> type, src |-> src]

Tiers == {"router", "primary", "heavy"}

\* an optional number is << >> (absent, null or undefined) or <<n>>
ParamValues == {<< >>, <<0>>, <<1>>}

\* GenerationParams, without stop (passed on as it comes)
GenerationParams ==
  [max_tokens : ParamValues, ctx : ParamValues, temperature : ParamValues]

\* policy.models with every default declared, and with the optional defaults
\* of ModelDef left out for the router and heavy tiers
ConfiguredModels ==
  [t \in Tiers |->
     CASE t = "router"  -> [max_tokens |-> <<2>>, ctx |-> <<2>>, temperature |-> <<2>>]
       [] t = "primary" -> [max_tokens |-> <<3>>, ctx |-> <<3>>, temperature |-> <<3>>]
       [] t = "heavy"   -> [max_tokens |-> <<4>>, ctx |-> <<4>>, temperature |-> <<4>>]]
PartialModels ==
  [t \in Tiers |->
     CASE t = "router"  -> [max_tokens |-> << >>, ctx |-> <<2>>, temperature |-> <<0>>]
       [] t = "primary" -> [max_tokens |-> <<3>>, ctx |-> <<3>>, temperature |-> <<3>>]
       [] t = "heavy"   -> [max_tokens |-> <<0>>, ctx |-> << >>, temperature |-> << >>]]
PolicyModels == {ConfiguredModels, PartialModels}

\* the calls made: the prompt p1 on the session s1, or the prompt p2 on s2
CallArgs ==
  {[sessionId |-> "s1", prompt |-> "p1", params |-> p] : p \in GenerationParams}
    \cup {[sessionId |-> "s2", prompt |-> "p2", params |-> p] : p \in GenerationParams}
NoArgs == [sessionId |-> "none", prompt |-> "none",
           params |-> [max_tokens |-> << >>, ctx |-> << >>, temperature |-> << >>]]

\* `a ?? b`
Coalesce_Truthy(a, b) == IF a # << >> /\ a # <<0>> THEN a ELSE b
Coalesce(a, b) == IF a # << >> THEN a ELSE b

\* finalParams: the caller's params merged over the tier's modelConfig
FinalParams(params, modelConfig) ==
  [max_tokens  |-> Coalesce(params.max_tokens, modelConfig.max_tokens),
   ctx         |-> Coalesce(params.ctx, modelConfig.ctx),
   temperature |-> Coalesce(params.temperature, modelConfig.temperature)]

\* heavyEngine.generateStream(prompt, finalParams, modelId)
HeavyInvocation(a, finalParams) ==
  [engine |-> "heavy", sessionId |-> "none", prompt |-> a.prompt, params |-> finalParams]
\* localEngine.generateStream(sessionId, prompt, finalParams)
LocalInvocation(a, finalParams) ==
  [engine |-> "local", sessionId |-> a.sessionId, prompt |-> a.prompt,
   params |-> finalParams]

\* the three events of a successful device command
DeviceEvents_TwoEvents == <<Ev("token", "device"), Ev("done", "device")>>
DeviceEvents == <<Ev("first", "device"), Ev("token", "device"), Ev("done", "device")>>

(***************************************************************************)
(* EngineSelector.generateStream                                           *)
(***************************************************************************)
RouterIdle == gpc \in {"idle", "returned", "raised"}

\* `heavyEngine || null`, then a VllmEngine of the policy's endpoint when no
\* engine was given and vllm_base_url is not empty
HeavyEngineOf(given, endpoint) == given \/ endpoint

\* new EngineSelector(localEngine, heavyEngine, policy): the policy's
\* fallback_enabled and models, whether a heavy engine is given and whether
\* the policy declares an endpoint
NewEngineSelector(f, given, endpoint, m) ==
  /\ gpc = "new"
  /\ fallback_enabled' = f
  /\ heavyEngine' = HeavyEngineOf(given, endpoint)
  /\ models' = m
  /\ gpc' = "idle"
  /\ UNCHANGED <<rclass, devCmd, tier, attempt, events, heavyCalls, localCalls,
                 hTokens, hErr, lErr, thrown, raisedErr, callArgs, engineArgs>>
  /\ UNCHANGED notRouterVars

\* `tier === 'heavy' && this.heavyEngine`
UseHeavy_TierOnly(t) == t = "heavy"
UseHeavy(t) == t = "heavy" /\ heavyEngine

\* the tier, the merged params and the try block: the selected engine's
\* generator is entered (h, l: the invocations made so far; a: the call's
\* arguments)
Dispatch(c, h, l, a) ==
  LET t == getEngineTier(c)
      finalParams == FinalParams(a.params, models[t])
  IN
  /\ tier' = t
  /\ attempt' = "first"
  /\ IF UseHeavy(t)
       THEN /\ heavyCalls' = h + 1
            /\ localCalls' = l
            /\ engineArgs' = <<HeavyInvocation(a, finalParams)>>
            /\ gpc' = "h_fetch"
       ELSE /\ localCalls' = l + 1
            /\ heavyCalls' = h
            /\ engineArgs' = <<LocalInvocation(a, finalParams)>>
            /\ gpc' = "l_pre"

\* `this.policy.policy.fallback_enabled && tier !== 'primary'`
ShouldFallback_NoTierCheck(t) == fallback_enabled
ShouldFallback_IgnorePolicy(t) == t # "primary"
ShouldFallback_Never(t) == FALSE
ShouldFallback(t) == fallback_enabled /\ t # "primary"

\* the inner try block: the fallback's own error is logged and rethrown
RetryInner_Again(err) ==
  /\ localCalls' = localCalls + 1
  /\ engineArgs' = Append(engineArgs, engineArgs[Len(engineArgs)])
  /\ gpc' = "l_pre"
  /\ UNCHANGED <<attempt, raisedErr>>
RetryInner(err) ==
  /\ gpc' = "raised"
  /\ raisedErr' = err
  /\ UNCHANGED <<attempt, localCalls, engineArgs>>

\* the catch blocks: what follows an error thrown by the engine invocation in flight
Catch(err) ==
  /\ thrown' = Append(thrown, err)
  /\ IF attempt = "first"
       THEN IF ShouldFallback(tier)
              THEN /\ attempt' = "fallback"
                   /\ localCalls' = localCalls + 1
                   /\ engineArgs' = Append(engineArgs,
                        LocalInvocation(callArgs, FinalParams(callArgs.params, models[tier])))
                   /\ gpc' = "l_pre"
                   /\ UNCHANGED raisedErr
              ELSE /\ gpc' = "raised"
                   /\ raisedErr' = err
                   /\ UNCHANGED <<attempt, localCalls, engineArgs>>
       ELSE RetryInner(err)

\* generateStream(sessionId, prompt, params), classify(prompt) giving class c
\* and (d) a deviceCommand: the device command or the engine
StartCall(c, d, a) ==
  /\ RouterIdle
  /\ d => c = "direct_command"
  /\ callArgs' = a
  /\ rclass' = c
  /\ devCmd' = d
  /\ events' = << >>
  /\ hTokens' = 0
  /\ hErr' = FALSE
  /\ lErr' = FALSE
  /\ thrown' = << >>
  /\ raisedErr' = "none"
  /\ IF c = "direct_command" /\ d
       THEN /\ gpc' = "device"
            /\ tier' = "none"
            /\ attempt' = "none"
            /\ heavyCalls' = 0
            /\ localCalls' = 0
            /\ engineArgs' = << >>
       ELSE Dispatch(c, 0, 0, a)
  /\ UNCHANGED <<fallback_enabled, heavyEngine, models>>
  /\ UNCHANGED notRouterVars

\* executeCommand resolves: first, token, done, return
DeviceOk ==
  /\ gpc = "device"
  /\ events' = events \o DeviceEvents
  /\ gpc' = "returned"
  /\ UNCHANGED <<fallback_enabled, heavyEngine, models, callArgs, rclass, devCmd, tier, attempt,
                 heavyCalls, localCalls, hTokens, hErr, lErr, thrown, raisedErr>>
  /\ UNCHANGED engineArgs
  /\ UNCHANGED notRouterVars

\* executeCommand rejects: logged, falls through to the engines
DeviceFail_Raise ==
  /\ gpc = "device"
  /\ gpc' = "raised"
  /\ raisedErr' = "device"
  /\ UNCHANGED <<fallback_enabled, heavyEngine, models, callArgs, rclass, devCmd, events,
                 tier, attempt, heavyCalls, localCalls, engineArgs,
                 hTokens, hErr, lErr, thrown>>
  /\ UNCHANGED notRouterVars
DeviceFail ==
  /\ gpc = "device"
  /\ Dispatch(rclass, heavyCalls, localCalls, callArgs)
  /\ UNCHANGED <<fallback_enabled, heavyEngine, models, callArgs, rclass, devCmd, events,
                 hTokens, hErr, lErr, thrown, raisedErr>>
  /\ UNCHANGED notRouterVars

(***************************************************************************)
(* VllmEngine.generateStream                                               *)
(***************************************************************************)
\* what the finally block yields once the try block is left
HeavyFinally == <<Ev("done", "heavy")>>

\* fetch rejects, or the response is not ok, or it has no body
HeavyFetchFail ==
  /\ gpc = "h_fetch"
  /\ hErr' = TRUE
  /\ UNCHANGED lErr
  /\ events' = events \o HeavyFinally
  /\ gpc' = "h_finally"
  /\ UNCHANGED <<fallback_enabled, heavyEngine, models, callArgs, rclass, devCmd, tier, attempt,
                 heavyCalls, localCalls, hTokens, thrown, raisedErr>>
  /\ UNCHANGED engineArgs
  /\ UNCHANGED notRouterVars

HeavyFetchOk ==
  /\ gpc = "h_fetch"
  /\ gpc' = "h_read"
  /\ UNCHANGED <<fallback_enabled, heavyEngine, models, callArgs, rclass, devCmd, tier, attempt, events,
                 heavyCalls, localCalls, hTokens, hErr, lErr, thrown, raisedErr>>
  /\ UNCHANGED engineArgs
  /\ UNCHANGED notRouterVars

\* reader.read() brings a line with a text: first (once), token
HeavyReadToken ==
  /\ gpc = "h_read"
  /\ hTokens < MaxTokens
  /\ events' = events \o (IF hTokens = 0 THEN <<Ev("first", "heavy")>> ELSE << >>)
                      \o <<Ev("token", "heavy")>>
  /\ hTokens' = hTokens + 1
  /\ UNCHANGED <<fallback_enabled, heavyEngine, models, callArgs, gpc, rclass, devCmd, tier, attempt,
                 heavyCalls, localCalls, hErr, lErr, thrown, raisedErr>>
  /\ UNCHANGED engineArgs
  /\ UNCHANGED notRouterVars

\* reader.read() rejects in the middle of the stream
HeavyReadFail ==
  /\ gpc = "h_read"
  /\ hErr' = TRUE
  /\ UNCHANGED lErr
  /\ events' = events \o HeavyFinally
  /\ gpc' = "h_finally"
  /\ UNCHANGED <<fallback_enabled, heavyEngine, models, callArgs, rclass, devCmd, tier, attempt,
                 heavyCalls, localCalls, hTokens, thrown, raisedErr>>
  /\ UNCHANGED engineArgs
  /\ UNCHANGED notRouterVars

\* reader.read() reports the end of the body
HeavyReadEnd ==
  /\ gpc = "h_read"
  /\ events' = events \o HeavyFinally
  /\ gpc' = "h_finally"
  /\ UNCHANGED <<fallback_enabled, heavyEngine, models, callArgs, rclass, devCmd, tier, attempt,
                 heavyCalls, localCalls, hTokens, hErr, lErr, thrown, raisedErr>>
  /\ UNCHANGED engineArgs
  /\ UNCHANGED notRouterVars

\* the caller resumes the generator after the finally block's yield:
\* the generator returns, or the pending error is thrown into generateStream
HeavyResume ==
  /\ gpc = "h_finally"
  /\ IF hErr
       THEN Catch("heavy")
       ELSE /\ gpc' = "returned"
            /\ UNCHANGED <<attempt, localCalls, thrown, raisedErr, engineArgs>>
  /\ UNCHANGED <<fallback_enabled, heavyEngine, models, callArgs, rclass, devCmd, tier, events,
                 heavyCalls, hTokens, hErr, lErr>>
  /\ UNCHANGED notRouterVars

(***************************************************************************)
(* LocalLlamaEngine.generateStream                                         *)
(***************************************************************************)
LocalErr == IF attempt = "first" THEN "local_first" ELSE "local_fallback"

\* thrown before the first yield: the prompt budget gate, ensureModel, getSession
LocalPreFail ==
  /\ gpc = "l_pre"
  /\ Catch(LocalErr)
  /\ UNCHANGED <<fallback_enabled, heavyEngine, models, callArgs, rclass, devCmd, tier, events,
                 heavyCalls, hTokens, hErr, lErr>>
  /\ UNCHANGED notRouterVars

LocalPreOk ==
  /\ gpc = "l_pre"
  /\ gpc' = "l_prompt"
  /\ UNCHANGED <<fallback_enabled, heavyEngine, models, callArgs, rclass, devCmd, tier, attempt, events,
                 heavyCalls, localCalls, hTokens, hErr, lErr, thrown, raisedErr>>
  /\ UNCHANGED engineArgs
  /\ UNCHANGED notRouterVars

\* session.prompt resolves to a non-empty response: first, token, done
LocalReply ==
  /\ gpc = "l_prompt"
  /\ events' = events \o <<Ev("first", "local"), Ev("token", "local"), Ev("done", "local")>>
  /\ gpc' = "returned"
  /\ UNCHANGED <<fallback_enabled, heavyEngine, models, callArgs, rclass, devCmd, tier, attempt,
                 heavyCalls, localCalls, hTokens, hErr, lErr, thrown, raisedErr>>
  /\ UNCHANGED engineArgs
  /\ UNCHANGED notRouterVars

\* session.prompt resolves to "": done alone
LocalNoReply ==
  /\ gpc = "l_prompt"
  /\ events' = events \o <<Ev("done", "local")>>
  /\ gpc' = "returned"
  /\ UNCHANGED <<fallback_enabled, heavyEngine, models, callArgs, rclass, devCmd, tier, attempt,
                 heavyCalls, localCalls, hTokens, hErr, lErr, thrown, raisedErr>>
  /\ UNCHANGED engineArgs
  /\ UNCHANGED notRouterVars

\* session.prompt rejects: the catch block logs the error, done alone
LocalPromptFail ==
  /\ gpc = "l_prompt"
  /\ lErr' = TRUE
  /\ events' = events \o <<Ev("done", "local")>>
  /\ gpc' = "returned"
  /\ UNCHANGED <<fallback_enabled, heavyEngine, models, callArgs, rclass, devCmd, tier, attempt,
                 heavyCalls, localCalls, hTokens, hErr, thrown, raisedErr>>
  /\ UNCHANGED engineArgs
  /\ UNCHANGED notRouterVars

\* a step of the call in flight
RouterStep ==
  \/ DeviceOk
  \/ DeviceFail
  \/ HeavyFetchFail
  \/ HeavyFetchOk
  \/ HeavyReadToken
  \/ HeavyReadFail
  \/ HeavyReadEnd
  \/ HeavyResume
  \/ LocalPreFail
  \/ LocalPreOk
  \/ LocalReply
  \/ LocalNoReply
  \/ LocalPromptFail

NextRouter ==
  \/ \E f \in BOOLEAN, given \in BOOLEAN, endpoint \in BOOLEAN, m \in PolicyModels :
       NewEngineSelector(f, given, endpoint, m)
  \/ \E c \in RouteClass, d \in BOOLEAN, a \in CallArgs : StartCall(c, d, a)
  \/ DeviceOk
  \/ DeviceFail
  \/ HeavyFetchFail
  \/ HeavyFetchOk
  \/ HeavyReadToken
  \/ HeavyReadFail
  \/ HeavyReadEnd
  \/ HeavyResume
  \/ LocalPreFail
  \/ LocalPreOk
  \/ LocalReply
  \/ LocalNoReply
  \/ LocalPromptFail

(***************************************************************************)
(* SessionManager (src/src/session/SessionManager.ts)                      *)
(*                                                                         *)
(* A session is [id, messages, lastAccessedAt]; messages holds the roles   *)
(* (content and timestamp are never read by the manager, nor is createdAt).*)
(* The reads of Date.now() made by one synchronous operation are taken to  *)
(* return the same value.                                                  *)
(***************************************************************************)
SessionIds == 1..(maxSessions + 1)

Range(q) == {q[i] : i \in 1..Len(q)}
Has(S, id) == \E i \in 1..Len(S) : S[i].id = id
IndexOf(S, id) == CHOOSE i \in 1..Len(S) : S[i].id = id
Ids(S) == [i \in 1..Len(S) |-> S[i].id]

NewSession(id, t) == [id |-> id, messages |-> <<"system">>, lastAccessedAt |-> t]

\* `now - session.lastAccessedAt > this.sessionTimeoutMs`
IsExpired_Geq(s, t) == t - s.lastAccessedAt >= sessionTimeoutMs
IsExpired(s, t) == t - s.lastAccessedAt > sessionTimeoutMs

\* Array.from(entries).sort((a, b) => a[1].lastAccessedAt - b[1].lastAccessedAt):
\* a stable sort, ties stay in insertion order
SortedByAccess_InsertionOrder(S) == S
SortedByAccess_NewestFirst(S) ==
  LET rank(i) == Cardinality({j \in 1..Len(S) :
                     \/ S[j].lastAccessedAt > S[i].lastAccessedAt
                     \/ (S[j].lastAccessedAt = S[i].lastAccessedAt /\ j > i)}) + 1
  IN [r \in 1..Len(S) |-> S[CHOOSE i \in 1..Len(S) : rank(i) = r]]
SortedByAccess(S) ==
  LET rank(i) == Cardinality({j \in 1..Len(S) :
                     \/ S[j].lastAccessedAt < S[i].lastAccessedAt
                     \/ (S[j].lastAccessedAt = S[i].lastAccessedAt /\ j < i)}) + 1
  IN [r \in 1..Len(S) |-> S[CHOOSE i \in 1..Len(S) : rank(i) = r]]

\* the ids cleanup collects in sessionsToDelete
SessionsToDelete(S, t) ==
  LET expired == Ids(SelectSeq(S, LAMBDA e : IsExpired(e, t)))
      excess  == Len(S) - Len(expired) - maxSessions
  IN IF Len(S) - Len(expired) > maxSessions
       THEN expired \o SubSeq(Ids(SortedByAccess(S)), 1, excess)
       ELSE expired

cleanup_ExpiredOnly(S, t) ==
  IF Len(S) <= maxSessions
    THEN S
    ELSE SelectSeq(S, LAMBDA e : ~IsExpired(e, t))
cleanup(S, t) ==
  IF Len(S) <= maxSessions
    THEN S
    ELSE LET sessionsToDelete == Range(SessionsToDelete(S, t))
         IN SelectSeq(S, LAMBDA e : e.id \notin sessionsToDelete)

AfterGetOrCreate_NoRefresh(S, id, t) ==
  IF ~Has(S, id)
    THEN cleanup(Append(S, NewSession(id, t)), t)
    ELSE S
\* the Map after getOrCreate(sessionId)
AfterGetOrCreate(S, id, t) ==
  IF ~Has(S, id)
    THEN cleanup(Append(S, NewSession(id, t)), t)
    ELSE [S EXCEPT ![IndexOf(S, id)].lastAccessedAt = t]

\* the Map after session.messages.push on the session getOrCreate returned
\* (the push reaches the Map only while the session object is still in it)
AfterAppend(S, id, t, role) ==
  LET S1 == AfterGetOrCreate(S, id, t) IN
  IF Has(S1, id)
    THEN [S1 EXCEPT ![IndexOf(S1, id)].messages = Append(@, role)]
    ELSE S1

NoRun == [run |-> FALSE, n |-> 0, firstAt |-> 0, lastAt |-> 0, seen |-> {},
          evicted |-> 0, appended |-> 0]

\* history: whether every operation so far was a getOrCreate on a fresh id
\* (run), how many there were, when the first and the last were made;
\* evicted: the sessions the last operation removed
RunAfterGetOrCreate(id) ==
  IF hist.run /\ id \notin hist.seen
    THEN [run |-> TRUE, n |-> hist.n + 1,
          firstAt |-> IF hist.n = 0 THEN now ELSE hist.firstAt,
          lastAt |-> now, seen |-> hist.seen \cup {id},
          evicted |-> 0, appended |-> hist.appended]
    ELSE [NoRun EXCEPT !.appended = hist.appended]

Evicted(S, S1) == Cardinality(Range(Ids(S)) \ Range(Ids(S1)))

GetOrCreate(id) ==
  /\ sessions' = AfterGetOrCreate(sessions, id, now)
  /\ hist' = [RunAfterGetOrCreate(id) EXCEPT !.evicted = Evicted(sessions, sessions')]
  /\ UNCHANGED now
  /\ UNCHANGED notSessionVars

Appended == hist.appended

AppendUser(id) ==
  /\ Appended < MaxAppends
  /\ sessions' = AfterAppend(sessions, id, now, "user")
  /\ hist' = [NoRun EXCEPT !.evicted = Evicted(sessions, sessions'),
                           !.appended = Appended + 1]
  /\ UNCHANGED now
  /\ UNCHANGED notSessionVars

AppendAssistant(id) ==
  /\ Appended < MaxAppends
  /\ sessions' = AfterAppend(sessions, id, now, "assistant")
  /\ hist' = [NoRun EXCEPT !.evicted = Evicted(sessions, sessions'),
                           !.appended = Appended + 1]
  /\ UNCHANGED now
  /\ UNCHANGED notSessionVars

\* getMessages: getOrCreate, then the session's messages are returned
GetMessages(id) ==
  /\ sessions' = AfterGetOrCreate(sessions, id, now)
  /\ hist' = [NoRun EXCEPT !.evicted = Evicted(sessions, sessions'),
                           !.appended = Appended]
  /\ UNCHANGED now
  /\ UNCHANGED notSessionVars

Reset_AlsoContext(id) ==
  /\ sessions' = SelectSeq(sessions, LAMBDA e : e.id # id)
  /\ hist' = [NoRun EXCEPT !.evicted = 0, !.appended = Appended]
  /\ llamaSessions' = SelectSeq(llamaSessions, LAMBDA e : e.id # ToString(id))
  /\ UNCHANGED <<now, calls, nextCtx, ret>>
  /\ UNCHANGED <<routerVars, chatVars, classifyVars, healthVars, toolVars>>
Reset(id) ==
  /\ sessions' = SelectSeq(sessions, LAMBDA e : e.id # id)
  /\ hist' = [NoRun EXCEPT !.evicted = 0, !.appended = Appended]
  /\ UNCHANGED now
  /\ UNCHANGED notSessionVars

\* time passes between two operations
Tick ==
  /\ now < MaxNow
  /\ now' = now + 1
  /\ UNCHANGED <<sessions, hist>>
  /\ UNCHANGED notSessionVars

NextSessions ==
  \/ \E id \in SessionIds : GetOrCreate(id)
  \/ \E id \in SessionIds : AppendUser(id)
  \/ \E id \in SessionIds : AppendAssistant(id)
  \/ \E id \in SessionIds : GetMessages(id)
  \/ \E id \in SessionIds : Reset(id)
  \/ Tick

(***************************************************************************)
(* getSession and llamaSessions (src/src/session/SessionManager.ts)        *)
(*                                                                         *)
(* An entry is [id, context, chat]. Contexts are numbered as createCtx     *)
(* builds them; the chat createChat derives from context n is written n.   *)
(* A call in flight is [pc, id, context]: context is what createCtx gave   *)
(* it (0: nothing yet). ret is the pair the step just taken returned to    *)
(* its caller (NoRet: the step returned nothing).                          *)
(***************************************************************************)
\* session ids: the empty string and maxContexts others, one more than the
\* registry may hold
LlamaIds == {""} \cup {ToString(i) : i \in 1..maxContexts}
Slots == 1..MaxSlots

IdleCall == [pc |-> "idle", id |-> "", context |-> 0]
NoRet == [id |-> "", context |-> 0, chat |-> 0, hit |-> FALSE]

\* a new call takes the lowest free slot (the slots are interchangeable)
FreeSlot(k) == calls[k].pc = "idle" /\ \A j \in 1..(k - 1) : calls[j].pc # "idle"

Entry(id, context, chat) == [id |-> id, context |-> context, chat |-> chat]

\* `llamaSessions.has(sessionId)`
CacheHit_Never(S, id) == FALSE
CacheHit(S, id) == Has(S, id)

\* llamaSessions.set: a new key goes last, a present key keeps its place
MapSet(S, id, context, chat) ==
  IF Has(S, id)
    THEN [S EXCEPT ![IndexOf(S, id)] = Entry(id, context, chat)]
    ELSE Append(S, Entry(id, context, chat))

\* `if (oldestKey)`: the empty string is falsy
Truthy(key) == key # ""

\* the cleanup that follows the set
EvictOldest(S) ==
  IF Len(S) > maxContexts
    THEN LET oldestKey == S[1].id IN
         IF Truthy(oldestKey) THEN Tail(S) ELSE S
    ELSE S

\* createChat(ctx): the chat handle of that context
ChatOf(context) == context

\* getSession(sessionId, createCtx, createChat) is called: a hit returns the
\* stored pair, a miss invokes createCtx and awaits it
GetSessionBegin(k, id) ==
  /\ FreeSlot(k)
  /\ IF CacheHit(llamaSessions, id)
       THEN LET existing == llamaSessions[IndexOf(llamaSessions, id)] IN
            /\ ret' = [id |-> id, context |-> existing.context,
                       chat |-> existing.chat, hit |-> TRUE]
            /\ UNCHANGED calls
       ELSE /\ calls' = [calls EXCEPT ![k] = [pc |-> "awaitCtx", id |-> id, context |-> 0]]
            /\ ret' = NoRet
  /\ UNCHANGED <<llamaSessions, nextCtx>>
  /\ UNCHANGED notLlamaVars

\* createCtx resolves; createChat(context) is invoked and awaited
\* (nothing is stored before createChat has resolved too)
CreateCtxDone_StoreEarly(k) ==
  /\ calls[k].pc = "awaitCtx"
  /\ nextCtx <= MaxCtx
  /\ calls' = [calls EXCEPT ![k].pc = "awaitChat", ![k].context = nextCtx]
  /\ nextCtx' = nextCtx + 1
  /\ ret' = NoRet
  /\ llamaSessions' = MapSet(llamaSessions, calls[k].id, nextCtx, 0)
  /\ UNCHANGED notLlamaVars
CreateCtxDone(k) ==
  /\ calls[k].pc = "awaitCtx"
  /\ nextCtx <= MaxCtx
  /\ calls' = [calls EXCEPT ![k].pc = "awaitChat", ![k].context = nextCtx]
  /\ nextCtx' = nextCtx + 1
  /\ ret' = NoRet
  /\ UNCHANGED llamaSessions
  /\ UNCHANGED notLlamaVars

\* createCtx rejects: getSession rejects
CreateCtxFail(k) ==
  /\ calls[k].pc = "awaitCtx"
  /\ calls' = [calls EXCEPT ![k] = IdleCall]
  /\ ret' = NoRet
  /\ UNCHANGED <<llamaSessions, nextCtx>>
  /\ UNCHANGED notLlamaVars

\* createChat resolves: set, cleanup, return
CreateChatDone(k) ==
  /\ calls[k].pc = "awaitChat"
  /\ LET c == calls[k]
         chat == ChatOf(c.context)
     IN /\ llamaSessions' = EvictOldest(MapSet(llamaSessions, c.id, c.context, chat))
        /\ ret' = [id |-> c.id, context |-> c.context, chat |-> chat,
                   hit |-> FALSE]
  /\ calls' = [calls EXCEPT ![k] = IdleCall]
  /\ UNCHANGED nextCtx
  /\ UNCHANGED notLlamaVars

\* createChat rejects: getSession rejects
CreateChatFail(k) ==
  /\ calls[k].pc = "awaitChat"
  /\ calls' = [calls EXCEPT ![k] = IdleCall]
  /\ ret' = NoRet
  /\ UNCHANGED <<llamaSessions, nextCtx>>
  /\ UNCHANGED notLlamaVars

NextLlama ==
  \/ \E k \in Slots, id \in LlamaIds : GetSessionBegin(k, id)
  \/ \E k \in Slots : CreateCtxDone(k)
  \/ \E k \in Slots : CreateCtxFail(k)
  \/ \E k \in Slots : CreateChatDone(k)
  \/ \E k \in Slots : CreateChatFail(k)

(***************************************************************************)
(* The POST /chat handler (src/src/index.ts)                               *)
(*                                                                         *)
(* A request in flight is [pc, sid, tokens]: pc is "gen" from the moment   *)
(* the handler starts to iterate result.stream (generateStream and the     *)
(* engine call run) until it sees `done` or an error, "device" while it    *)
(* awaits executeDirectCommand; tokens counts the token events it has      *)
(* written to the reply. The handler takes no lock and consults no         *)
(* per-session state before it starts the stream.                          *)
(***************************************************************************)
\* String.prototype.trim
IsSpace(ch) == ch \in {" ", "\t", "\n", "\r"}
Trim(s) ==
  LET inked == {i \in 1..Len(s) : ~IsSpace(s[i])} IN
  IF inked = {}
    THEN << >>
    ELSE LET first == CHOOSE i \in inked : \A j \in inked : i <= j
             last  == CHOOSE i \in inked : \A j \in inked : j <= i
         IN SubSeq(s, first, last)

ReqSlots == 1..MaxReqs
ChatIds == 1..MaxChatIds

IdleReq == [pc |-> "idle", sid |-> 0, arrival |-> 0, cmd |-> FALSE, texts |-> << >>,
            fullResponse |-> << >>]

\* a new request takes the lowest free slot (the slots are interchangeable)
FreeReq(k) == reqs[k].pc = "idle" /\ \A j \in 1..(k - 1) : reqs[j].pc # "idle"

\* what the handler leaves in hist: its appends end a run of getOrCreate calls
ChatHist(S, S1) == [NoRun EXCEPT !.evicted = Evicted(S, S1), !.appended = Appended]

\* the texts an engine generates
TokenTexts == {"a", "b"}

\* the token event the engines yield: { type: 'token', text, timestamp }
TokenEvent(t) == [type |-> "token", text |-> t]

\* the value of event.field: undefined when the event has no such property,
\* which reads "undefined" when it is concatenated to a string
Undefined == "undefined"
Property(event, field) == IF field \in DOMAIN event THEN event[field] ELSE Undefined

\* the message of the result of executeDirectCommand: the handler's result
\* string when parseCommand(input) gives a command, 'Command not recognized'
\* otherwise
DeviceMessage(cmd) ==
  IF cmd THEN <<"deviceResult.message">> ELSE <<"Command not recognized">>

\* sessionManager.appendAssistant(session_id, content) made by request k
AppendAssistantOf(k, type, content) ==
  /\ sessions' = AfterAppend(sessions, reqs[k].sid, now, "assistant")
  /\ hist' = ChatHist(sessions, sessions')
  /\ replies' = Append(replies, [sid |-> reqs[k].sid, arrival |-> reqs[k].arrival,
                                 type |-> type, content |-> content,
                                 texts |-> reqs[k].texts])

\* POST /chat {prompt, session_id} with a non-blank prompt of class c, from
\* which parseCommand extracts a command iff d: appendUser,
\* generateWithFallback, then the device branch or the stream
ChatBegin(k, sid, c, d) ==
  /\ FreeReq(k)
  /\ d => c = "direct_command"
  /\ served < MaxChats
  /\ served' = served + 1
  /\ sessions' = AfterAppend(sessions, sid, now, "user")
  /\ hist' = ChatHist(sessions, sessions')
  /\ reqs' = [reqs EXCEPT ![k] = [IdleReq EXCEPT
                                    !.pc = IF c = "direct_command" THEN "device" ELSE "gen",
                                    !.sid = sid, !.arrival = served', !.cmd = d]]
  /\ UNCHANGED <<now, replies, rejected>>
  /\ UNCHANGED notChatVars

\* executeDirectCommand resolves: appendAssistant, the JSON reply
ChatDeviceDone(k) ==
  /\ reqs[k].pc = "device"
  /\ AppendAssistantOf(k, "direct_command", DeviceMessage(reqs[k].cmd))
  /\ reqs' = [reqs EXCEPT ![k] = IdleReq]
  /\ UNCHANGED <<now, served, rejected>>
  /\ UNCHANGED notChatVars

\* the stream yields a token event with text t: event.token is written to
\* the reply and added to fullResponse
ChatToken(k, t) ==
  /\ reqs[k].pc = "gen"
  /\ Len(reqs[k].texts) < MaxTokens
  /\ LET event == TokenEvent(t) IN
     reqs' = [reqs EXCEPT ![k].texts = Append(@, event.text),
                          ![k].fullResponse = Append(@, Property(event, "token"))]
  /\ UNCHANGED <<served, replies, rejected>>
  /\ UNCHANGED <<sessionVars, notChatVars>>

\* the stream yields a token event and reply.raw.write(event.token) throws
\* on a chunk that is no string: the catch block answers 500
ChatWriteRaise(k, t) ==
  /\ reqs[k].pc = "gen"
  /\ Len(reqs[k].texts) < MaxTokens
  /\ Property(TokenEvent(t), "token") = Undefined
  /\ reqs' = [reqs EXCEPT ![k] = IdleReq]
  /\ UNCHANGED <<served, replies, rejected>>
  /\ UNCHANGED <<sessionVars, notChatVars>>

\* the stream yields done: the reply ends, appendAssistant, break
ChatDone(k) ==
  /\ reqs[k].pc = "gen"
  /\ AppendAssistantOf(k, "llm", reqs[k].fullResponse)
  /\ reqs' = [reqs EXCEPT ![k] = IdleReq]
  /\ UNCHANGED <<now, served, rejected>>
  /\ UNCHANGED notChatVars

\* the stream raises: the catch block answers 500, nothing is appended
ChatRaise(k) ==
  /\ reqs[k].pc = "gen"
  /\ reqs' = [reqs EXCEPT ![k] = IdleReq]
  /\ UNCHANGED <<served, replies, rejected>>
  /\ UNCHANGED <<sessionVars, notChatVars>>

\* the request body's prompt: absent, or a string
Prompts ==
  {[given |-> FALSE, text |-> << >>], [given |-> TRUE, text |-> << >>],
   [given |-> TRUE, text |-> <<" ">>], [given |-> TRUE, text |-> <<"\t", " ">>],
   [given |-> TRUE, text |-> <<" ", "h", "i">>]}

\* `!prompt?.trim()`: undefined when the prompt is absent, else the trimmed
\* string, which is falsy when it is empty
Blank(prompt) == ~prompt.given \/ Trim(prompt.text) = << >>

\* POST /chat {prompt, session_id} with a blank prompt: reply.code(400),
\* { error: 'Prompt is required' }, before the try block
ChatReject_AfterAppend(sid, prompt) ==
  /\ Blank(prompt)
  /\ served < MaxChats
  /\ served' = served + 1
  /\ rejected' = rejected + 1
  /\ sessions' = AfterAppend(sessions, sid, now, "user")
  /\ hist' = ChatHist(sessions, sessions')
  /\ UNCHANGED <<now, reqs, replies>>
  /\ UNCHANGED notChatVars
ChatReject(sid, prompt) ==
  /\ Blank(prompt)
  /\ served < MaxChats
  /\ served' = served + 1
  /\ rejected' = rejected + 1
  /\ UNCHANGED <<reqs, replies>>
  /\ UNCHANGED <<sessionVars, notChatVars>>

\* POST /chat/clear {session_id}: sessionManager.reset(session_id)
ChatClear(sid) ==
  /\ sessions' = SelectSeq(sessions, LAMBDA e : e.id # sid)
  /\ hist' = [NoRun EXCEPT !.evicted = 0, !.appended = Appended]
  /\ UNCHANGED now
  /\ UNCHANGED <<chatVars, notChatVars>>

NextChat ==
  \/ \E k \in ReqSlots, sid \in ChatIds, c \in RouteClass, d \in BOOLEAN : ChatBegin(k, sid, c, d)
  \/ \E k \in ReqSlots : ChatDeviceDone(k)
  \/ \E k \in ReqSlots, t \in TokenTexts : ChatToken(k, t)
  \/ \E k \in ReqSlots, t \in TokenTexts : ChatWriteRaise(k, t)
  \/ \E k \in ReqSlots : ChatDone(k)
  \/ \E k \in ReqSlots : ChatRaise(k)
  \/ \E sid \in ChatIds, prompt \in Prompts : ChatReject(sid, prompt)
  \/ \E sid \in ChatIds : ChatClear(sid)

(***************************************************************************)
(* Router.classify (src/src/router/Router.ts) and DeviceActions.parseCommand *)
(* (src/src/tools/WebFetch.ts)                                             *)
(*                                                                         *)
(* A string is the sequence of its characters. A confidence is written in  *)
(* hundredths (95 for 0.95).                                               *)
(***************************************************************************)
\* String.prototype.toLowerCase, on the characters of the inputs
LowerChar_Identity(ch) == ch
LowerChar(ch) ==
    CASE ch = "A" -> "a"
      [] ch = "B" -> "b"
      [] ch = "C" -> "c"
      [] ch = "D" -> "d"
      [] ch = "E" -> "e"
      [] ch = "F" -> "f"
      [] ch = "G" -> "g"
      [] ch = "H" -> "h"
      [] ch = "I" -> "i"
      [] ch = "J" -> "j"
      [] ch = "K" -> "k"
      [] ch = "L" -> "l"
      [] ch = "M" -> "m"
      [] ch = "N" -> "n"
      [] ch = "O" -> "o"
      [] ch = "P" -> "p"
      [] ch = "Q" -> "q"
      [] ch = "R" -> "r"
      [] ch = "S" -> "s"
      [] ch = "T" -> "t"
      [] ch = "U" -> "u"
      [] ch = "V" -> "v"
      [] ch = "W" -> "w"
      [] ch = "X" -> "x"
      [] ch = "Y" -> "y"
      [] ch = "Z" -> "z"
      [] OTHER -> ch
ToLowerCase(s) == [i \in 1..Len(s) |-> LowerChar(s[i])]

\* String.prototype.includes
Includes(s, kw) ==
  \E i \in 0..(Len(s) - Len(kw)) : \A j \in 1..Len(kw) : s[i + j] = kw[j]

\* a match of /^(p1|p2|...)/
StartsWithAny(s, prefixes) ==
  \E p \in prefixes : Len(p) <= Len(s) /\ \A j \in 1..Len(p) : s[j] = p[j]

Digits == {"0", "1", "2", "3", "4", "5", "6", "7", "8", "9"}
DigitValue(ch) ==
  CASE ch = "0" -> 0 [] ch = "1" -> 1 [] ch = "2" -> 2 [] ch = "3" -> 3 [] ch = "4" -> 4
    [] ch = "5" -> 5 [] ch = "6" -> 6 [] ch = "7" -> 7 [] ch = "8" -> 8 [] ch = "9" -> 9

\* a match of /\d+/
HasDigits(s) == \E i \in 1..Len(s) : s[i] \in Digits

\* `lower.match(/\d+/)?.[0]`: the first run of digits
FirstDigits(s) ==
  LET first == CHOOSE i \in 1..Len(s) : s[i] \in Digits /\ \A j \in 1..(i - 1) : s[j] \notin Digits
      last  == CHOOSE i \in first..Len(s) :
                 /\ \A j \in first..i : s[j] \in Digits
                 /\ (i = Len(s) \/ s[i + 1] \notin Digits)
  IN SubSeq(s, first, last)

\* parseInt of a run of digits
RECURSIVE ParseInt(_)
ParseInt(ds) ==
  IF ds = << >> THEN 0
  ELSE 10 * ParseInt(SubSeq(ds, 1, Len(ds) - 1)) + DigitValue(ds[Len(ds)])

\* a DeviceCommand; parameters is << >> when the command carries none
DeviceCommand(type, action, parameters) ==
  [type |-> type, action |-> action, parameters |-> parameters]
\* null
NoCommand == DeviceCommand("none", "none", << >>)

\* DeviceActions.parseCommand(input)
parseCommand(input) ==
  LET lower == ToLowerCase(input)
      lights ==
        IF Includes(lower, <<"t", "u", "r", "n", " ", "o", "n">> (* turn on *))
          \/ Includes(lower, <<"s", "w", "i", "t", "c", "h", " ", "o", "n">> (* switch on *))
          THEN DeviceCommand("lights", "turn_on", << >>)
        ELSE IF Includes(lower, <<"t", "u", "r", "n", " ", "o", "f", "f">> (* turn off *))
          \/ Includes(lower, <<"s", "w", "i", "t", "c", "h", " ", "o", "f", "f">> (* switch off *))
          THEN DeviceCommand("lights", "turn_off", << >>)
        ELSE IF Includes(lower, <<"d", "i", "m">> (* dim *))
          THEN DeviceCommand("lights", "dim", << >>)
        ELSE IF Includes(lower, <<"b", "r", "i", "g", "h", "t", "e", "n">> (* brighten *))
          \/ Includes(lower, <<"b", "r", "i", "g", "h", "t">> (* bright *))
          THEN DeviceCommand("lights", "brighten", << >>)
        ELSE NoCommand
      thermostat ==
        IF Includes(lower, <<"s", "e", "t">> (* set *)) /\ HasDigits(lower)
          THEN DeviceCommand("thermostat", "set_temperature", <<ParseInt(FirstDigits(lower))>>)
        ELSE IF Includes(lower, <<"r", "a", "i", "s", "e">> (* raise *))
          \/ Includes(lower, <<"u", "p">> (* up *))
          \/ Includes(lower, <<"w", "a", "r", "m", "e", "r">> (* warmer *))
          THEN DeviceCommand("thermostat", "raise_temperature", << >>)
        ELSE IF Includes(lower, <<"l", "o", "w", "e", "r">> (* lower *))
          \/ Includes(lower, <<"d", "o", "w", "n">> (* down *))
          \/ Includes(lower, <<"c", "o", "o", "l", "e", "r">> (* cooler *))
          THEN DeviceCommand("thermostat", "lower_temperature", << >>)
        ELSE NoCommand
      music ==
        IF Includes(lower, <<"p", "l", "a", "y">> (* play *))
          THEN DeviceCommand("music", "play", << >>)
        ELSE IF Includes(lower, <<"p", "a", "u", "s", "e">> (* pause *))
          THEN DeviceCommand("music", "pause", << >>)
        ELSE IF Includes(lower, <<"s", "t", "o", "p">> (* stop *))
          THEN DeviceCommand("music", "stop", << >>)
        ELSE IF Includes(lower, <<"v", "o", "l", "u", "m", "e", " ", "u", "p">> (* volume up *))
          \/ Includes(lower, <<"l", "o", "u", "d", "e", "r">> (* louder *))
          THEN DeviceCommand("music", "volume_up", << >>)
        ELSE IF Includes(lower, <<"v", "o", "l", "u", "m", "e", " ", "d", "o", "w", "n">> (* volume down *))
          \/ Includes(lower, <<"q", "u", "i", "e", "t", "e", "r">> (* quieter *))
          THEN DeviceCommand("music", "volume_down", << >>)
        ELSE NoCommand
      security ==
        IF Includes(lower, <<"l", "o", "c", "k">> (* lock *))
          THEN DeviceCommand("security", "lock_doors", << >>)
        ELSE IF Includes(lower, <<"u", "n", "l", "o", "c", "k">> (* unlock *))
          THEN DeviceCommand("security", "unlock_doors", << >>)
        ELSE IF Includes(lower, <<"a", "r", "m">> (* arm *))
          THEN DeviceCommand("security", "arm", << >>)
        ELSE IF Includes(lower, <<"d", "i", "s", "a", "r", "m">> (* disarm *))
          THEN DeviceCommand("security", "disarm", << >>)
        ELSE NoCommand
  IN
  IF (Includes(lower, <<"l", "i", "g", "h", "t">> (* light *))
          \/ Includes(lower, <<"l", "a", "m", "p">> (* lamp *))) /\ lights # NoCommand
    THEN lights
  ELSE IF (Includes(lower, <<"t", "e", "m", "p", "e", "r", "a", "t", "u", "r", "e">> (* temperature *))
          \/ Includes(lower, <<"t", "h", "e", "r", "m", "o", "s", "t", "a", "t">> (* thermostat *))
          \/ Includes(lower, <<"h", "e", "a", "t">> (* heat *))
          \/ Includes(lower, <<"c", "o", "o", "l">> (* cool *)))
          /\ thermostat # NoCommand
    THEN thermostat
  ELSE IF (Includes(lower, <<"m", "u", "s", "i", "c">> (* music *))
          \/ Includes(lower, <<"s", "o", "n", "g">> (* song *))
          \/ Includes(lower, <<"p", "l", "a", "y">> (* play *))
          \/ Includes(lower, <<"s", "p", "o", "t", "i", "f", "y">> (* spotify *)))
          /\ music # NoCommand
    THEN music
  ELSE IF (Includes(lower, <<"l", "o", "c", "k">> (* lock *))
          \/ Includes(lower, <<"u", "n", "l", "o", "c", "k">> (* unlock *))
          \/ Includes(lower, <<"s", "e", "c", "u", "r", "i", "t", "y">> (* security *))
          \/ Includes(lower, <<"a", "l", "a", "r", "m">> (* alarm *)))
          /\ security # NoCommand
    THEN security
  ELSE NoCommand

\* Router.hardKeywords
hardKeywords ==
  {<<"m", "u", "l", "t", "i", "-", "s", "t", "e", "p">> (* multi-step *),
   <<"f", "u", "l", "l", " ", "d", "e", "s", "i", "g", "n">> (* full design *),
   <<"l", "o", "n", "g", " ", "p", "l", "a", "n">> (* long plan *),
   <<"r", "e", "f", "a", "c", "t", "o", "r", " ", "l", "a", "r", "g", "e", " ", "f", "i", "l", "e">> (* refactor large file *),
   <<"a", "r", "c", "h", "i", "t", "e", "c", "t">> (* architect *),
   <<"c", "o", "m", "p", "r", "e", "h", "e", "n", "s", "i", "v", "e">> (* comprehensive *),
   <<"d", "e", "t", "a", "i", "l", "e", "d", " ", "a", "n", "a", "l", "y", "s", "i", "s">> (* detailed analysis *),
   <<"c", "o", "m", "p", "a", "r", "e", " ", "m", "u", "l", "t", "i", "p", "l", "e">> (* compare multiple *),
   <<"r", "e", "s", "e", "a", "r", "c", "h">> (* research *),
   <<"w", "r", "i", "t", "e", " ", "a", " ", "r", "e", "p", "o", "r", "t">> (* write a report *),
   <<"c", "r", "e", "a", "t", "e", " ", "a", " ", "d", "o", "c", "u", "m", "e", "n", "t">> (* create a document *),
   <<"p", "l", "a", "n", " ", "a", " ", "p", "r", "o", "j", "e", "c", "t">> (* plan a project *)}

\* Router.directCommandKeywords
directCommandKeywords ==
  {<<"t", "u", "r", "n", " ", "o", "n">> (* turn on *),
   <<"t", "u", "r", "n", " ", "o", "f", "f">> (* turn off *),
   <<"p", "l", "a", "y", " ", "m", "u", "s", "i", "c">> (* play music *),
   <<"s", "t", "o", "p", " ", "m", "u", "s", "i", "c">> (* stop music *),
   <<"l", "o", "c", "k", " ", "d", "o", "o", "r", "s">> (* lock doors *),
   <<"u", "n", "l", "o", "c", "k", " ", "d", "o", "o", "r", "s">> (* unlock doors *),
   <<"s", "e", "t", " ", "t", "e", "m", "p", "e", "r", "a", "t", "u", "r", "e">> (* set temperature *),
   <<"d", "i", "m", " ", "l", "i", "g", "h", "t", "s">> (* dim lights *),
   <<"b", "r", "i", "g", "h", "t", "e", "n", " ", "l", "i", "g", "h", "t", "s">> (* brighten lights *),
   <<"a", "r", "m", " ", "s", "e", "c", "u", "r", "i", "t", "y">> (* arm security *),
   <<"d", "i", "s", "a", "r", "m", " ", "s", "e", "c", "u", "r", "i", "t", "y">> (* disarm security *)}

questionWords ==
  {<<"w", "h", "a", "t">> (* what *),
   <<"w", "h", "y">> (* why *),
   <<"h", "o", "w">> (* how *),
   <<"w", "h", "e", "n">> (* when *),
   <<"w", "h", "e", "r", "e">> (* where *),
   <<"w", "h", "o">> (* who *)}

\* the alternatives of the regular expression of the simple factual questions
factualPrefixes ==
  {<<"w", "h", "a", "t", " ", "i", "s">> (* what is *),
   <<"w", "h", "a", "t", "'", "s">> (* what's *),
   <<"w", "h", "o", " ", "i", "s">> (* who is *),
   <<"w", "h", "o", "'", "s">> (* who's *),
   <<"w", "h", "e", "n", " ", "i", "s">> (* when is *),
   <<"w", "h", "e", "n", "'", "s">> (* when's *),
   <<"w", "h", "e", "r", "e", " ", "i", "s">> (* where is *),
   <<"w", "h", "e", "r", "e", "'", "s">> (* where's *)}

\* `keywords.some(keyword => lower.includes(keyword))`
hasDirectKeywords(lower) == \E keyword \in directCommandKeywords : Includes(lower, keyword)
hasHardKeywords_None(lower) == FALSE
hasHardKeywords(lower) == \E keyword \in hardKeywords : Includes(lower, keyword)
hasQuestionWords(lower) == \E word \in questionWords : Includes(lower, word)

\* a RouteResult; deviceCommand is NoCommand when the result carries none
RouteResult_Percent(class, confidence, reasoning, deviceCommand) ==
  [class |-> class, confidence |-> confidence * 100, reasoning |-> reasoning,
   deviceCommand |-> deviceCommand]
RouteResult(class, confidence, reasoning, deviceCommand) ==
  [class |-> class, confidence |-> confidence, reasoning |-> reasoning,
   deviceCommand |-> deviceCommand]

\* no classification made yet
NoResult == [class |-> "none", confidence |-> 0, reasoning |-> "", deviceCommand |-> NoCommand]

\* Router.classify(input)
classify(input) ==
  LET lower == Trim(ToLowerCase(input))
      deviceCommand == parseCommand(input)
  IN
  IF deviceCommand # NoCommand
    THEN RouteResult("direct_command", 95, "Detected device/automation command", deviceCommand)
  ELSE IF hasDirectKeywords(lower)
    THEN RouteResult("direct_command", 90, "Contains direct command keywords", NoCommand)
  ELSE IF hasHardKeywords(lower)
    THEN RouteResult("hard", 90, "Contains complexity keywords indicating hard query", NoCommand)
  ELSE IF Len(input) < 10
    THEN RouteResult("trivial", 70, "Very short input likely trivial", NoCommand)
  ELSE IF Len(input) > 200
    THEN RouteResult("hard", 80, "Long input suggests complex query", NoCommand)
  ELSE IF hasQuestionWords(lower) /\ StartsWithAny(lower, factualPrefixes)
    THEN RouteResult("trivial", 80, "Simple factual question", NoCommand)
  ELSE IF hasQuestionWords(lower) /\ Includes(lower, <<"h", "o", "w">> (* how *))
          /\ (Includes(lower, <<"w", "o", "r", "k">> (* work *))
          \/ Includes(lower, <<"i", "m", "p", "l", "e", "m", "e", "n", "t">> (* implement *))
          \/ Includes(lower, <<"d", "e", "s", "i", "g", "n">> (* design *)))
    THEN RouteResult("hard", 80, "Complex how-to or explanation question", NoCommand)
  ELSE IF (Includes(lower, <<"c", "o", "d", "e">> (* code *))
          \/ Includes(lower, <<"f", "u", "n", "c", "t", "i", "o", "n">> (* function *))
          \/ Includes(lower, <<"c", "l", "a", "s", "s">> (* class *))
          \/ Includes(lower, <<"a", "l", "g", "o", "r", "i", "t", "h", "m">> (* algorithm *))
          \/ Includes(lower, <<"i", "m", "p", "l", "e", "m", "e", "n", "t">> (* implement *))
          \/ Includes(lower, <<"d", "e", "b", "u", "g">> (* debug *)))
    THEN IF (Includes(lower, <<"s", "i", "m", "p", "l", "e">> (* simple *))
          \/ Includes(lower, <<"b", "a", "s", "i", "c">> (* basic *))
          \/ Includes(lower, <<"q", "u", "i", "c", "k">> (* quick *)))
           THEN RouteResult("normal", 70, "Simple technical query", NoCommand)
           ELSE RouteResult("hard", 80, "Technical/coding query", NoCommand)
  ELSE IF HasDigits(lower)
          /\ (Includes(lower, <<"c", "a", "l", "c", "u", "l", "a", "t", "e">> (* calculate *))
          \/ Includes(lower, <<"c", "o", "m", "p", "u", "t", "e">> (* compute *))
          \/ Includes(lower, <<"+">>)
          \/ Includes(lower, <<"-">>)
          \/ Includes(lower, <<"*">>)
          \/ Includes(lower, <<"/">>))
    THEN RouteResult("trivial", 80, "Simple calculation", NoCommand)
  ELSE RouteResult("normal", 60, "Default classification for conversational input", NoCommand)

\* what executeCommand resolves to: the handler that answered, the text of
\* its answer and the number the text carries (0 when it carries none)
Answer(handler, text, n) == [handler |-> handler, text |-> text, n |-> n]

\* the handlers switch on action.toLowerCase(); the action names are written
\* in lower case throughout
handleLights(command) ==
  CASE command.action \in {"turn_on", "on"} -> Answer("lights", "Turning on lights", 0)
    [] command.action \in {"turn_off", "off"} -> Answer("lights", "Turning off lights", 0)
    [] command.action = "dim" -> Answer("lights", "Dimming lights to %", 50)
    [] command.action = "brighten" -> Answer("lights", "Brightening lights", 0)
    [] OTHER -> Answer("lights", "Unknown light command", 0)

\* `parameters?.temperature || 72`: 72 for no parameter and for 0
handleThermostat(command) ==
  CASE command.action = "set_temperature" ->
         Answer("thermostat", "Setting temperature to F",
                IF command.parameters = << >> \/ command.parameters = <<0>>
                  THEN 72 ELSE command.parameters[1])
    [] command.action = "raise_temperature" ->
         Answer("thermostat", "Raising temperature by 2 degrees", 0)
    [] command.action = "lower_temperature" ->
         Answer("thermostat", "Lowering temperature by 2 degrees", 0)
    [] command.action = "set_mode" -> Answer("thermostat", "Setting thermostat mode to auto", 0)
    [] OTHER -> Answer("thermostat", "Unknown thermostat command", 0)

handleMusic_NoStop(command) ==
  CASE command.action = "play" -> Answer("music", "Playing music", 0)
    [] command.action = "pause" -> Answer("music", "Pausing music", 0)
    [] command.action = "volume_up" -> Answer("music", "Turning volume up", 0)
    [] command.action = "volume_down" -> Answer("music", "Turning volume down", 0)
    [] command.action = "next" -> Answer("music", "Skipping to next track", 0)
    [] command.action = "previous" -> Answer("music", "Going to previous track", 0)
    [] OTHER -> Answer("music", "Unknown music command", 0)
handleMusic(command) ==
  CASE command.action = "play" -> Answer("music", "Playing music", 0)
    [] command.action = "pause" -> Answer("music", "Pausing music", 0)
    [] command.action = "stop" -> Answer("music", "Stopping music", 0)
    [] command.action = "volume_up" -> Answer("music", "Turning volume up", 0)
    [] command.action = "volume_down" -> Answer("music", "Turning volume down", 0)
    [] command.action = "next" -> Answer("music", "Skipping to next track", 0)
    [] command.action = "previous" -> Answer("music", "Going to previous track", 0)
    [] OTHER -> Answer("music", "Unknown music command", 0)

handleSecurity(command) ==
  CASE command.action = "arm" -> Answer("security", "Arming security system", 0)
    [] command.action = "disarm" -> Answer("security", "Disarming security system", 0)
    [] command.action = "lock_doors" -> Answer("security", "Locking all doors", 0)
    [] command.action = "unlock_doors" -> Answer("security", "Unlocking doors", 0)
    [] command.action = "check_status" ->
         Answer("security", "Security system is armed and all sensors are normal", 0)
    [] OTHER -> Answer("security", "Unknown security command", 0)

handleGeneral(command) == Answer("general", "Executing", 0)

\* DeviceActions.executeCommand(command)
executeCommand(command) ==
  CASE command.type = "lights" -> handleLights(command)
    [] command.type = "thermostat" -> handleThermostat(command)
    [] command.type = "music" -> handleMusic(command)
    [] command.type = "security" -> handleSecurity(command)
    [] OTHER -> handleGeneral(command)

\* the texts the inputs are made of: a run of 195 letters, and short pieces
Filler == [i \in 1..195 |-> "x"]
Vocabulary ==
  {<<"t", "u", "r", "n", " ", "o", "n", " ">> (* turn on  *),
   <<"l", "i", "g", "h", "t">> (* light *),
   <<"L", "I", "G", "H", "T">> (* LIGHT *),
   <<"r", "e", "s", "e", "a", "r", "c", "h">> (* research *),
   <<"w", "h", "a", "t", " ", "i", "s", " ">> (* what is  *),
   <<"h", "o", "w", " ">> (* how  *),
   <<"w", "o", "r", "k">> (* work *),
   <<"c", "o", "d", "e", " ">> (* code  *),
   <<"s", "i", "m", "p", "l", "e", " ">> (* simple  *),
   <<"1", "5", " ", "+", " ", "2", "7">> (* 15 + 27 *),
   <<" ">>,
   Filler}

\* a piece is added to the text being entered
TypePiece(w) ==
  /\ nPieces < MaxPieces
  /\ typed' = typed \o w
  /\ nPieces' = nPieces + 1
  /\ routeResult' = NoResult
  /\ UNCHANGED notClassifyVars

\* whole requests, as a user says them
Sentences ==
  {<<"u", "n", "l", "o", "c", "k", " ", "t", "h", "e", " ", "d", "o", "o", "r">> (* unlock the door *),
   <<"l", "o", "c", "k", " ", "t", "h", "e", " ", "d", "o", "o", "r">> (* lock the door *),
   <<"d", "i", "s", "a", "r", "m", " ", "t", "h", "e", " ", "a", "l", "a", "r", "m">> (* disarm the alarm *),
   <<"a", "r", "m", " ", "t", "h", "e", " ", "a", "l", "a", "r", "m">> (* arm the alarm *),
   <<"p", "a", "u", "s", "e", " ", "t", "h", "e", " ", "m", "u", "s", "i", "c">> (* pause the music *),
   <<"p", "l", "a", "y", " ", "t", "h", "e", " ", "m", "u", "s", "i", "c">> (* play the music *),
   <<"d", "i", "m", " ", "t", "h", "e", " ", "l", "i", "g", "h", "t">> (* dim the light *),
   <<"b", "r", "i", "g", "h", "t", "e", "n", " ", "t", "h", "e", " ", "l", "i", "g", "h", "t">> (* brighten the light *),
   <<"t", "u", "r", "n", " ", "o", "f", "f", " ", "t", "h", "e", " ", "l", "i", "g", "h", "t">> (* turn off the light *),
   <<"t", "u", "r", "n", " ", "o", "n", " ", "t", "h", "e", " ", "l", "i", "g", "h", "t">> (* turn on the light *),
   <<"c", "a", "l", "c", "u", "l", "a", "t", "e", " ", "1", "0", "0", " ", "/", " ", "4">> (* calculate 100 / 4 *),
   <<"c", "o", "m", "p", "u", "t", "e", " ", "5", " ", "*", " ", "8">> (* compute 5 * 8 *),
   <<"T", "U", "R", "N", " ", "O", "N", " ", "T", "H", "E", " ", "L", "I", "G", "H", "T", "S">> (* TURN ON THE LIGHTS *),
   <<"D", "i", "s", "a", "r", "m", " ", "T", "h", "e", " ", "A", "l", "a", "r", "m">> (* Disarm The Alarm *),
   <<"s", "e", "t", " ", "t", "h", "e", " ", "t", "e", "m", "p", "e", "r", "a", "t", "u", "r", "e", " ", "t", "o", " ", "7", "0">> (* set the temperature to 70 *),
   <<"r", "a", "i", "s", "e", " ", "t", "h", "e", " ", "h", "e", "a", "t">> (* raise the heat *),
   <<"l", "o", "w", "e", "r", " ", "t", "h", "e", " ", "t", "h", "e", "r", "m", "o", "s", "t", "a", "t">> (* lower the thermostat *),
   <<"s", "t", "o", "p", " ", "t", "h", "e", " ", "s", "o", "n", "g">> (* stop the song *),
   <<"v", "o", "l", "u", "m", "e", " ", "u", "p", " ", "o", "n", " ", "s", "p", "o", "t", "i", "f", "y">> (* volume up on spotify *),
   <<"s", "p", "o", "t", "i", "f", "y", " ", "q", "u", "i", "e", "t", "e", "r">> (* spotify quieter *),
   <<"s", "w", "i", "t", "c", "h", " ", "o", "n", " ", "t", "h", "e", " ", "l", "a", "m", "p">> (* switch on the lamp *),
   <<"s", "w", "i", "t", "c", "h", " ", "o", "f", "f", " ", "t", "h", "e", " ", "l", "a", "m", "p">> (* switch off the lamp *)}

\* a whole request is entered at once; nothing is added to it
TypeSentence(w) ==
  /\ nPieces = 0
  /\ typed' = w
  /\ nPieces' = MaxPieces
  /\ routeResult' = NoResult
  /\ UNCHANGED notClassifyVars

\* router.classify is called on the text entered
Classify ==
  /\ routeResult = NoResult
  /\ routeResult' = classify(typed)
  /\ UNCHANGED <<typed, nPieces>>
  /\ UNCHANGED notClassifyVars

NextClassify ==
  \/ \E w \in Vocabulary : TypePiece(w)
  \/ \E w \in Sentences : TypeSentence(w)
  \/ Classify

(***************************************************************************)
(* Health: EngineSelector.getHealth (src/src/router/Router.ts),            *)
(* VllmEngine.healthCheck / getHealth (src/unnamed/part_003) and           *)
(* LocalLlamaEngine.getHealth (src/unnamed/part_002)                       *)
(***************************************************************************)
EndpointAnswers == {"ok", "not_ok", "unreachable"}

NoHealth == [op |-> "none", local |-> "none", heavy |-> "none", fallback_enabled |-> FALSE]

\* LocalLlamaEngine.getHealth: ok is `this.model !== null`
LocalHealth == IF model THEN "ok" ELSE "not_ok"

\* VllmEngine.getHealth: { ok: true, baseUrl, engine: 'vllm' }
VllmHealth == "ok"

\* `this.heavyEngine ? this.heavyEngine.getHealth() : null`
HeavyHealth == IF heavyEngine THEN VllmHealth ELSE "null"

\* the vLLM server starts answering differently
EndpointChanges(a) ==
  /\ a # vllmServer
  /\ vllmServer' = a
  /\ health' = NoHealth
  /\ UNCHANGED model
  /\ UNCHANGED notHealthVars

\* LocalLlamaEngine.ensureModel loads the model
EnsureModel ==
  /\ ~model
  /\ model' = TRUE
  /\ health' = NoHealth
  /\ UNCHANGED vllmServer
  /\ UNCHANGED notHealthVars

\* LocalLlamaEngine.cleanup drops the model
CleanupModel ==
  /\ model
  /\ model' = FALSE
  /\ health' = NoHealth
  /\ UNCHANGED vllmServer
  /\ UNCHANGED notHealthVars

\* EngineSelector.getHealth()
GetHealth ==
  /\ gpc # "new"
  /\ health' = [op |-> "getHealth", local |-> LocalHealth, heavy |-> HeavyHealth,
                fallback_enabled |-> fallback_enabled]
  /\ UNCHANGED <<vllmServer, model>>
  /\ UNCHANGED notHealthVars

\* VllmEngine.healthCheck(): response.ok, or false when the fetch rejects
HealthCheck ==
  /\ gpc # "new"
  /\ heavyEngine
  /\ health' = [NoHealth EXCEPT !.op = "healthCheck",
                                !.heavy = IF vllmServer = "ok" THEN "ok" ELSE "not_ok"]
  /\ UNCHANGED <<vllmServer, model>>
  /\ UNCHANGED notHealthVars

NextHealth ==
  \/ \E f \in BOOLEAN, given \in BOOLEAN, e \in BOOLEAN, m \in PolicyModels :
       NewEngineSelector(f, given, e, m)
  \/ \E a \in EndpointAnswers : EndpointChanges(a)
  \/ EnsureModel
  \/ CleanupModel
  \/ GetHealth
  \/ HealthCheck

InitRouter ==
  /\ fallback_enabled = FALSE
  /\ heavyEngine = FALSE
  /\ gpc = "new"
  /\ rclass = "normal"
  /\ devCmd = FALSE
  /\ tier = "none"
  /\ attempt = "none"
  /\ events = << >>
  /\ heavyCalls = 0
  /\ localCalls = 0
  /\ hTokens = 0
  /\ hErr = FALSE
  /\ lErr = FALSE
  /\ thrown = << >>
  /\ raisedErr = "none"
  /\ models = ConfiguredModels
  /\ callArgs = NoArgs
  /\ engineArgs = << >>

InitSessions ==
  /\ sessions = << >>
  /\ now = 0
  /\ hist = [run |-> TRUE, n |-> 0, firstAt |-> 0, lastAt |-> 0, seen |-> {},
             evicted |-> 0, appended |-> 0]

InitLlama ==
  /\ llamaSessions = << >>
  /\ calls = [k \in Slots |-> IdleCall]
  /\ nextCtx = 1
  /\ ret = NoRet

InitChat ==
  /\ reqs = [k \in ReqSlots |-> IdleReq]
  /\ served = 0
  /\ replies = << >>
  /\ rejected = 0

InitClassify ==
  /\ typed = << >>
  /\ nPieces = 0
  /\ routeResult = NoResult

InitHealth ==
  /\ vllmServer = "unreachable"
  /\ model = FALSE
  /\ health = NoHealth

(***************************************************************************)
(* ConversationHandler (src/src/conversation/ConversationHandler.ts)       *)
(*                                                                         *)
(* A processAndSpeak call is "fetch" while it awaits the ElevenLabs        *)
(* request, "afplay" or "say" while the player process runs, "killed" once *)
(* its player process was killed and the rejection of its await is still   *)
(* to be delivered.                                                        *)
(***************************************************************************)
SpeakSlots == 1..MaxSpeaks

FreeSpeak(k) == speaks[k] = "idle" /\ \A j \in 1..(k - 1) : speaks[j] # "idle"

\* new ConversationHandler(config): enableTTS, and whether an ElevenLabs key
\* is configured
NewConversationHandler(c) ==
  /\ tts = "new"
  /\ tts' = c
  /\ UNCHANGED <<isSpeaking, speaks, stopPc>>
  /\ UNCHANGED notSpeechVars

\* processAndSpeak(response): nothing is spoken with enableTTS off; else
\* speakWithElevenLabs or speakWithMacOS, which return at once while
\* isSpeaking is set and else set it and start
ProcessAndSpeak(k) ==
  /\ tts \notin {"new", "off"}
  /\ FreeSpeak(k)
  /\ ~isSpeaking
  /\ isSpeaking' = TRUE
  /\ speaks' = [speaks EXCEPT ![k] = IF tts = "elevenlabs" THEN "fetch" ELSE "say"]
  /\ UNCHANGED <<tts, stopPc>>
  /\ UNCHANGED notSpeechVars

\* the ElevenLabs request answers OK: the audio is saved and afplay started
SpeakFetched(k) ==
  /\ speaks[k] = "fetch"
  /\ speaks' = [speaks EXCEPT ![k] = "afplay"]
  /\ UNCHANGED <<tts, isSpeaking, stopPc>>
  /\ UNCHANGED notSpeechVars

\* the ElevenLabs request fails or is not OK: catch, finally
SpeakFetchFail(k) ==
  /\ speaks[k] = "fetch"
  /\ speaks' = [speaks EXCEPT ![k] = "idle"]
  /\ isSpeaking' = FALSE
  /\ UNCHANGED <<tts, stopPc>>
  /\ UNCHANGED notSpeechVars

\* the player process exits by itself, with or without an error, or the
\* rejection of a killed one is delivered: finally
SpeakEnd(k) ==
  /\ speaks[k] \in {"afplay", "say", "killed"}
  /\ speaks' = [speaks EXCEPT ![k] = "idle"]
  /\ isSpeaking' = FALSE
  /\ UNCHANGED <<tts, stopPc>>
  /\ UNCHANGED notSpeechVars

\* stopSpeaking() while isSpeaking is set: `pkill -f afplay` is started
StopSpeaking ==
  /\ tts # "new"
  /\ stopPc = "idle"
  /\ isSpeaking
  /\ stopPc' = "pkill_afplay"
  /\ UNCHANGED <<tts, isSpeaking, speaks>>
  /\ UNCHANGED notSpeechVars

Kill(player) == [k \in SpeakSlots |-> IF speaks[k] = player THEN "killed" ELSE speaks[k]]

\* `pkill -f afplay || true` resolves: `pkill -f say` is started
StopAfplayKilled ==
  /\ stopPc = "pkill_afplay"
  /\ speaks' = Kill("afplay")
  /\ stopPc' = "pkill_say"
  /\ UNCHANGED <<tts, isSpeaking>>
  /\ UNCHANGED notSpeechVars

\* `pkill -f say || true` resolves: isSpeaking = false
StopSayKilled ==
  /\ stopPc = "pkill_say"
  /\ speaks' = Kill("say")
  /\ isSpeaking' = FALSE
  /\ stopPc' = "idle"
  /\ UNCHANGED tts
  /\ UNCHANGED notSpeechVars

\* one of the two execAsync calls rejects: the catch block logs the error
StopFail ==
  /\ stopPc \in {"pkill_afplay", "pkill_say"}
  /\ stopPc' = "idle"
  /\ UNCHANGED <<tts, isSpeaking, speaks>>
  /\ UNCHANGED notSpeechVars

NextSpeech ==
  \/ \E c \in {"elevenlabs", "macos", "off"} : NewConversationHandler(c)
  \/ \E k \in SpeakSlots : ProcessAndSpeak(k)
  \/ \E k \in SpeakSlots : SpeakFetched(k)
  \/ \E k \in SpeakSlots : SpeakFetchFail(k)
  \/ \E k \in SpeakSlots : SpeakEnd(k)
  \/ StopSpeaking
  \/ StopAfplayKilled
  \/ StopSayKilled
  \/ StopFail

InitSpeech ==
  /\ tts = "new"
  /\ isSpeaking = FALSE
  /\ speaks = [k \in SpeakSlots |-> "idle"]
  /\ stopPc = "idle"

(***************************************************************************)
(* WebFetch.fetchUrl (src/src/tools/WebFetch.ts) with timeout              *)
(* (src/src/utils/timing.ts)                                               *)
(*                                                                         *)
(* done lists what the call did: the fetches it started, how each ended,   *)
(* the delays it waited.                                                   *)
(***************************************************************************)
NoError == "null"

IdleFetch == [pc |-> "idle", maxRetries |-> 0, attempt |-> 0, lastError |-> NoError,
              done |-> << >>, raised |-> NoError]

\* the messages of the errors an attempt ends with: fetch rejects, the race
\* of timeout() is won by the timer, response.text() rejects, the response
\* is not OK
Failures == {"fetch failed", "Timeout after ms", "terminated", "HTTP status"}

\* `lastError?.message || 'Unknown error'`
MessageOf(lastError) == IF lastError = NoError \/ lastError = "" THEN "Unknown error" ELSE lastError

\* new Error(`Failed to fetch ${url}: ${...}`)
FailedToFetch(lastError) == <<"Failed to fetch url: ", MessageOf(lastError)>>

RECURSIVE Pow2(_)
Pow2(n) == IF n = 0 THEN 1 ELSE 2 * Pow2(n - 1)

\* Math.min(1000 * Math.pow(2, attempt - 1), 5000)
Delay(n) ==
  LET d == 1000 * Pow2(n - 1) IN IF d < 5000 THEN d ELSE 5000

Did(type, n, detail) == [type |-> type, attempt |-> n, detail |-> detail]

\* fetchUrl(url, { maxRetries }): the loop is entered when 1 <= maxRetries,
\* else the error after the loop is thrown
FetchUrl(maxRetries_) ==
  /\ fetching.pc = "idle"
  /\ fetching' =
       IF 1 <= maxRetries_
         THEN [IdleFetch EXCEPT !.pc = "fetch", !.maxRetries = maxRetries_, !.attempt = 1,
                                !.done = <<Did("fetch", 1, "")>>]
         ELSE [IdleFetch EXCEPT !.pc = "raised", !.maxRetries = maxRetries_, !.attempt = 1,
                                !.raised = FailedToFetch(NoError)]
  /\ UNCHANGED notFetchVars

\* the response arrives in time, its text is read and it is OK: return result
FetchOk ==
  /\ fetching.pc = "fetch"
  /\ fetching' = [fetching EXCEPT !.pc = "returned",
                                  !.done = Append(@, Did("ok", fetching.attempt, ""))]
  /\ UNCHANGED notFetchVars

FetchFail_AlwaysDelay(message) ==
  /\ fetching.pc = "fetch"
  /\ fetching' = [fetching EXCEPT
         !.lastError = message,
         !.pc = "wait",
         !.done = @ \o <<Did("fail", fetching.attempt, message),
                         Did("wait", fetching.attempt, ToString(Delay(fetching.attempt)))>>]
  /\ UNCHANGED notFetchVars
\* the attempt fails with an error of the given message: the catch block
\* keeps it in lastError and starts the delay when an attempt is left; after
\* the last attempt the loop ends and the error is thrown
FetchFail(message) ==
  /\ fetching.pc = "fetch"
  /\ fetching' =
       IF fetching.attempt < fetching.maxRetries
         THEN [fetching EXCEPT
                 !.lastError = message,
                 !.pc = "wait",
                 !.done = @ \o <<Did("fail", fetching.attempt, message),
                                 Did("wait", fetching.attempt,
                                     ToString(Delay(fetching.attempt)))>>]
         ELSE [fetching EXCEPT
                 !.lastError = message,
                 !.pc = "raised",
                 !.attempt = @ + 1,
                 !.done = Append(@, Did("fail", fetching.attempt, message)),
                 !.raised = FailedToFetch(message)]
  /\ UNCHANGED notFetchVars

\* the delay is over: attempt++, the next fetch is started
FetchRetry ==
  /\ fetching.pc = "wait"
  /\ fetching' = [fetching EXCEPT !.pc = "fetch", !.attempt = @ + 1,
                                  !.done = Append(@, Did("fetch", fetching.attempt + 1, ""))]
  /\ UNCHANGED notFetchVars

NextFetch ==
  \/ \E m \in 0..MaxRetries : FetchUrl(m)
  \/ FetchOk
  \/ \E message \in Failures : FetchFail(message)
  \/ FetchRetry

InitFetch ==
  fetching = IdleFetch

Init ==
  /\ InitRouter /\ InitSessions /\ InitLlama /\ InitChat /\ InitClassify /\ InitHealth
  /\ InitSpeech /\ InitFetch

Next ==
  \/ NextRouter \/ NextSessions \/ NextLlama \/ NextChat \/ NextClassify \/ NextHealth
  \/ NextSpeech \/ NextFetch

Spec == Init /\ [][Next]_vars

SpecSessions == Init /\ [][NextSessions]_vars

SpecLlama == Init /\ [][NextLlama]_vars

SpecRouter == Init /\ [][NextRouter]_vars

\* the two registries of SessionManager.ts side by side: transcripts are
\* created, evicted and reset while getSession calls are made one at a time
NextRegistries ==
  \/ \E id \in SessionIds : GetOrCreate(id)
  \/ \E id \in SessionIds : Reset(id)
  \/ \E id \in LlamaIds : GetSessionBegin(1, id)
  \/ CreateCtxDone(1)
  \/ CreateChatDone(1)

SpecRegistries == Init /\ [][NextRegistries]_vars

SpecHealth == Init /\ [][NextHealth]_vars

SpecSpeech == Init /\ [][NextSpeech]_vars

SpecFetch == Init /\ [][NextFetch]_vars

SpecChat == Init /\ [][NextChat]_vars

\* the /chat and /chat/clear handlers seen from their entry: requests are
\* rejected or accepted and end, the tokens of the streams left out
NextChatGate ==
  \/ \E k \in ReqSlots, sid \in ChatIds, c \in RouteClass, d \in BOOLEAN : ChatBegin(k, sid, c, d)
  \/ \E k \in ReqSlots : ChatDeviceDone(k)
  \/ \E k \in ReqSlots : ChatDone(k)
  \/ \E k \in ReqSlots : ChatRaise(k)
  \/ \E sid \in ChatIds, prompt \in Prompts : ChatReject(sid, prompt)
  \/ \E sid \in ChatIds : ChatClear(sid)

SpecChatGate == Init /\ [][NextChatGate]_vars

SpecClassify == Init /\ [][NextClassify]_vars

\* every step of a call in flight is eventually taken (each await settles)
SpecRouterFair == SpecRouter /\ WF_vars(RouterStep)

(***************************************************************************)
(* Statements about EngineSelector.generateStream                          *)
(***************************************************************************)
Types(evs) == [i \in 1..Len(evs) |-> evs[i].type]
FromSrc(evs, src) == SelectSeq(evs, LAMBDA e : e.src = src)

\* first? token* done: at most one first, at the head; done once, at the end
MatchesProtocol(evs) ==
  /\ Len(evs) >= 1
  /\ evs[Len(evs)].type = "done"
  /\ \E k \in {0, 1} :
       /\ k = 1 => (Len(evs) >= 2 /\ evs[1].type = "first")
       /\ \A i \in (k + 1)..(Len(evs) - 1) : evs[i].type = "token"

\* what one successful run of the Local engine yields
LocalOutputs == {<<"first", "token", "done">>, <<"done">>}

\* s is a suffix of t
IsSuffix(s, t) ==
  /\ Len(s) <= Len(t)
  /\ \A i \in 1..Len(s) : s[i] = t[Len(t) - Len(s) + i]

\* C1: every stream of generateStream that completes without raising is
\* first? token* done, with at most one first and exactly one done, the last
\* event; on every path, the fallback after a Heavy failure included.
C1_StreamProtocol == gpc = "returned" => MatchesProtocol(events)

\* C2: Heavy fails, fallback_enabled, a hard prompt: the Local engine is
\* invoked exactly once for the call (one retry), the Heavy engine's error is
\* never raised, and with a Local engine that does not itself raise the call
\* completes successfully, its stream ending with the Local engine's output.
C2_FallbackCompletes ==
  (rclass = "hard" /\ hErr /\ fallback_enabled /\ gpc \in {"returned", "raised"})
    => /\ localCalls = 1
       /\ heavyCalls = 1
       /\ raisedErr # "heavy"
       /\ "local_fallback" \notin {thrown[i] : i \in 1..Len(thrown)}
            => /\ gpc = "returned"
               /\ Types(FromSrc(events, "local")) \in LocalOutputs
               /\ IsSuffix(FromSrc(events, "local"), events)

C2_Witness ==
  /\ rclass = "hard" /\ hErr /\ fallback_enabled /\ gpc = "returned"
  /\ localCalls = 1
  /\ Types(FromSrc(events, "local")) = <<"first", "token", "done">>

\* C3: Heavy fails, fallback_enabled = false, a hard prompt: the call raises the
\* Heavy engine's own error and the Local engine is never invoked for it.
C3_NoFallbackRaises ==
  (rclass = "hard" /\ heavyCalls = 1 /\ ~fallback_enabled)
    => /\ localCalls = 0
       /\ (hErr /\ gpc \in {"returned", "raised"})
            => (gpc = "raised" /\ raisedErr = "heavy" /\ thrown = <<"heavy">>)

C3_Witness ==
  /\ rclass = "hard" /\ hErr /\ ~fallback_enabled
  /\ gpc = "raised" /\ raisedErr = "heavy" /\ localCalls = 0

\* C4: a call makes at most two engine invocations, the second one being the
\* fallback invocation of the Local engine, made only after the first raised;
\* and when every engine invocation terminates the call ends, with done as its
\* last event or by raising an error.
C4_Inv ==
  /\ heavyCalls + localCalls <= 2
  /\ heavyCalls <= 1
  /\ heavyCalls + localCalls = 2
       => (attempt = "fallback" /\ localCalls >= 1 /\ Len(thrown) >= 1)
  /\ Len(thrown) <= heavyCalls + localCalls
  /\ gpc = "returned" => (events # << >> /\ events[Len(events)].type = "done")
  /\ gpc = "raised" => (raisedErr # "none" /\ raisedErr = thrown[Len(thrown)])

InCall == gpc \notin {"new", "idle", "returned", "raised"}

C4_BoundedRetry == [](C4_Inv) /\ (InCall ~> (gpc \in {"returned", "raised"}))

C4_Witness == heavyCalls + localCalls = 2 /\ gpc = "raised" /\ Len(thrown) = 2

\* C5: when the engine invoked for a primary-tier (normal) request fails, the
\* call raises that error and makes no second engine invocation, whatever
\* fallback_enabled is.
C5_PrimaryNoFallback ==
  (rclass = "normal" /\ gpc \notin {"new", "idle"})
    => /\ tier = "primary"
       /\ heavyCalls = 0
       /\ localCalls = 1
       /\ thrown # << >>
            => (gpc = "raised" /\ raisedErr = thrown[1] /\ Len(thrown) = 1)

C5_Witness ==
  /\ rclass = "normal" /\ fallback_enabled /\ gpc = "raised"
  /\ raisedErr = "local_first" /\ localCalls = 1

\* C14: when classify returns direct_command with a deviceCommand and
\* executing it succeeds, the call yields exactly first, token (the result of
\* the device action), done, in that order, and invokes no engine.
C14_DeviceStream ==
  /\ [](gpc = "device" =>
          /\ rclass = "direct_command" /\ devCmd
          /\ events = << >>
          /\ heavyCalls = 0 /\ localCalls = 0 /\ engineArgs = << >>)
  /\ [][(gpc = "device" /\ gpc' = "returned") =>
          /\ events' = <<Ev("first", "device"), Ev("token", "device"), Ev("done", "device")>>
          /\ heavyCalls' = 0 /\ localCalls' = 0 /\ engineArgs' = << >>]_vars

C14_Witness ==
  /\ gpc = "returned" /\ rclass = "direct_command" /\ devCmd /\ attempt = "none"
  /\ Types(events) = <<"first", "token", "done">>
  /\ heavyCalls + localCalls = 0

\* C15: when executing the device command fails, the call emits no event for
\* the device attempt, does not raise the device error, and goes on with
\* engine generation on the call's own prompt, on the router tier.
C15_DeviceFailFallsThrough ==
  /\ [][(gpc = "device" /\ gpc' \notin {"device", "returned"}) =>
          /\ events' = << >>
          /\ raisedErr' = "none" /\ thrown' = << >>
          /\ tier' = "router"
          /\ gpc' = "l_pre" /\ localCalls' = 1 /\ heavyCalls' = 0
          /\ engineArgs' = <<[engine |-> "local", sessionId |-> callArgs.sessionId,
                               prompt |-> callArgs.prompt,
                               params |-> engineArgs'[1].params]>>]_vars
  /\ []((devCmd /\ gpc \notin {"new", "idle", "device"} /\ attempt # "none") =>
          /\ tier = "router"
          /\ FromSrc(events, "device") = << >>
          /\ raisedErr # "device"
          /\ heavyCalls = 0)

C15_Witness ==
  /\ devCmd /\ attempt = "first" /\ gpc = "returned" /\ tier = "router"
  /\ Types(events) = <<"first", "token", "done">>
  /\ FromSrc(events, "local") = events

\* C16: the Heavy engine is the first engine invoked only when the tier is
\* heavy and a Heavy engine is configured; in every other case, a hard prompt
\* with no heavy endpoint included, the Local engine is invoked first and the
\* missing endpoint raises no error.
C16_HeavyOnlyWhenConfigured ==
  /\ Len(engineArgs) >= 1 =>
       /\ engineArgs[1].engine = "heavy" <=> (tier = "heavy" /\ heavyEngine)
       /\ engineArgs[1].engine = "local" <=> ~(tier = "heavy" /\ heavyEngine)
  /\ (rclass = "hard" /\ ~heavyEngine /\ gpc \notin {"new", "idle"}) =>
       /\ heavyCalls = 0 /\ localCalls >= 1
       /\ Len(engineArgs) >= 1 /\ engineArgs[1].engine = "local"
       /\ (gpc = "l_pre" /\ attempt = "first") => (thrown = << >> /\ raisedErr = "none")
       /\ \A i \in 1..Len(thrown) : thrown[i] \in {"local_first", "local_fallback"}

C16_Witness ==
  /\ rclass = "hard" /\ ~heavyEngine /\ gpc = "returned"
  /\ localCalls = 1 /\ heavyCalls = 0 /\ thrown = << >>
  /\ Types(events) = <<"first", "token", "done">>

\* the value the claim gives a parameter: the caller's when it is not null
\* (zero included), the tier's configured default otherwise
ExpectedParam(callerValue, tierDefault) ==
  IF callerValue = << >> THEN tierDefault ELSE callerValue

ExpectedParams ==
  [max_tokens  |-> ExpectedParam(callArgs.params.max_tokens, models[tier].max_tokens),
   ctx         |-> ExpectedParam(callArgs.params.ctx, models[tier].ctx),
   temperature |-> ExpectedParam(callArgs.params.temperature, models[tier].temperature)]

\* C17: every engine invocation receives, for max_tokens, ctx and temperature,
\* the caller's value when it is not null (zero included) and the tier's
\* default otherwise; the fallback invocation receives the same merged
\* parameters, the call's sessionId and the same prompt as the failed one.
C17_MergedParams ==
  /\ \A i \in 1..Len(engineArgs) :
       /\ engineArgs[i].params = ExpectedParams
       /\ engineArgs[i].prompt = callArgs.prompt
       /\ engineArgs[i].engine = "local" => engineArgs[i].sessionId = callArgs.sessionId
  /\ Len(engineArgs) = 2 =>
       /\ engineArgs[2].engine = "local"
       /\ engineArgs[2].params = engineArgs[1].params
       /\ engineArgs[2].prompt = engineArgs[1].prompt
       /\ engineArgs[2].sessionId = callArgs.sessionId
       /\ engineArgs[1].engine = "local" => engineArgs[2].sessionId = engineArgs[1].sessionId

\* a fallback invocation made with a caller's zero and a tier default
C17_Witness ==
  /\ Len(engineArgs) = 2 /\ attempt = "fallback"
  /\ callArgs.params.max_tokens = <<0>> /\ callArgs.params.ctx = << >>
  /\ engineArgs[2].params.max_tokens = <<0>>
  /\ engineArgs[2].params.ctx = models[tier].ctx
  /\ engineArgs[2].params.ctx # << >>

\* C20: getEngineTier is total on the four route classes: router for
\* direct_command and trivial, primary for normal, heavy for hard, whatever the
\* state of the dispatcher (policy, engines, earlier calls).
C20_TierTable ==
  /\ getEngineTier("direct_command") = "router"
  /\ getEngineTier("trivial") = "router"
  /\ getEngineTier("normal") = "primary"
  /\ getEngineTier("hard") = "heavy"
  /\ tier # "none" =>
       /\ rclass \in {"direct_command", "trivial"} => tier = "router"
       /\ rclass = "normal" => tier = "primary"
       /\ rclass = "hard" => tier = "heavy"

C20_Witness ==
  /\ rclass = "trivial" /\ tier = "router" /\ gpc = "returned"
  /\ heavyEngine /\ fallback_enabled /\ models = PartialModels

(***************************************************************************)
(* Statements about SessionManager                                         *)
(***************************************************************************)
\* C6: after every public operation (getOrCreate, appendUser, appendAssistant,
\* getMessages, reset), in any sequence and with any time between them, the
\* registry holds at most maxSessions sessions.
C6_RegistryBounded == Len(sessions) <= maxSessions

\* a creation found the registry full, and cleanup removed a session
C6_Witness == Len(sessions) = maxSessions /\ hist.evicted >= 1

\* C8 as stated: after N > maxSessions getOrCreate calls on N distinct ids and
\* no reset, the registry holds exactly maxSessions sessions, whatever the
\* time between the calls.
C8_ExactlyMaxAnyTiming ==
  (hist.run /\ hist.n > maxSessions) => Len(sessions) = maxSessions

\* C8 amended: after such calls the registry holds between 1 and maxSessions
\* sessions, and exactly maxSessions when the last call was made no more than
\* sessionTimeoutMs after the first.
C8_ExactlyMaxWithinTimeout ==
  (hist.run /\ hist.n > maxSessions)
    => /\ Len(sessions) >= 1
       /\ Len(sessions) <= maxSessions
       /\ hist.lastAt - hist.firstAt <= sessionTimeoutMs
            => Len(sessions) = maxSessions

C8_Witness ==
  /\ hist.run /\ hist.n > maxSessions
  /\ hist.lastAt - hist.firstAt = sessionTimeoutMs
  /\ Len(sessions) = maxSessions

(***************************************************************************)
(* Statements about getSession                                             *)
(***************************************************************************)
Stored(S, id) == S[IndexOf(S, id)]

\* the step is the return of a getSession call that missed
MissReturn(k) == calls[k].pc = "awaitChat" /\ calls'[k].pc = "idle" /\ ret' # NoRet
\* the step is the return of a getSession call that hit
HitReturn == calls' = calls /\ ret' # NoRet

\* C7: after every completed getSession call, for any interleaving of
\* concurrent calls and every session id (the empty string included),
\* llamaSessions holds at most maxContexts entries.
C7_ContextsBounded == Len(llamaSessions) <= maxContexts

\* C9: when an insertion makes llamaSessions exceed maxContexts, exactly one
\* entry is evicted, the oldest-inserted one; a hit leaves the order as it is.
C9_FifoEviction ==
  [][/\ HitReturn => llamaSessions' = llamaSessions
     /\ \A k \in Slots :
          MissReturn(k) =>
            LET before   == Ids(llamaSessions)
                inserted == IF Has(llamaSessions, calls[k].id)
                              THEN before
                              ELSE Append(before, calls[k].id)
            IN (Len(before) <= maxContexts /\ Len(inserted) > maxContexts)
                 => Ids(llamaSessions') = Tail(inserted)]_vars

\* C10: a call on an id in the registry returns the stored pair and invokes no
\* factory; a call on an absent id invokes createCtx once (one new context),
\* then createChat on that context, stores the pair under id and returns it.
C10_State ==
  \A k \in Slots :
    /\ calls[k].pc = "awaitCtx" => calls[k].context = 0
    /\ calls[k].pc = "awaitChat" => calls[k].context \in 1..(nextCtx - 1)
    /\ \A j \in Slots :
         (j # k /\ calls[k].pc = "awaitChat" /\ calls[j].pc = "awaitChat")
           => calls[j].context # calls[k].context

C10_Step ==
  /\ HitReturn =>
       /\ Has(llamaSessions, ret'.id)
       /\ ret'.hit
       /\ ret'.context = Stored(llamaSessions, ret'.id).context
       /\ ret'.chat = Stored(llamaSessions, ret'.id).chat
       /\ nextCtx' = nextCtx
       /\ llamaSessions' = llamaSessions
  /\ \A k \in Slots :
       \* createCtx is invoked, on a miss only
       /\ (calls[k].pc = "idle" /\ calls'[k].pc = "awaitCtx")
            => (~Has(llamaSessions, calls'[k].id) /\ nextCtx' = nextCtx /\ ret' = NoRet)
       \* it builds one new context, handed to createChat
       /\ (calls[k].pc = "awaitCtx" /\ calls'[k].pc = "awaitChat")
            => (nextCtx' = nextCtx + 1 /\ calls'[k].context = nextCtx
                /\ calls'[k].id = calls[k].id)
       /\ calls[k].pc = "awaitCtx" => calls'[k].pc \in {"awaitCtx", "awaitChat", "idle"}
       /\ (calls[k].pc = "awaitCtx" /\ calls'[k].pc = "idle") => ret' = NoRet
       \* the pair is stored under id and returned
       /\ MissReturn(k) =>
            /\ ~ret'.hit
            /\ ret'.id = calls[k].id
            /\ ret'.context = calls[k].context
            /\ ret'.chat = ChatOf(calls[k].context)
            /\ nextCtx' = nextCtx
            /\ Has(llamaSessions', ret'.id)
            /\ Stored(llamaSessions', ret'.id) = Entry(ret'.id, ret'.context, ret'.chat)

C10_GetSession == [](C10_State) /\ [][C10_Step]_vars

\* a call that missed has returned the pair it built, the pair is in the full
\* registry, and another call is waiting for its own context
C10_Witness ==
  /\ ~ret.hit /\ ret.context # 0
  /\ Len(llamaSessions) = maxContexts
  /\ Has(llamaSessions, ret.id)
  /\ Stored(llamaSessions, ret.id).context = ret.context
  /\ \E k \in Slots : calls[k].pc = "awaitChat"

(***************************************************************************)
(* Statements about concurrent requests                                    *)
(***************************************************************************)
\* C11: at any time at most one generation is in flight per sessionId: no two
\* /chat requests on one session are both between the start of their stream
\* and its done (a second request waits or is rejected as busy).
C11_OneGenerationPerSession ==
  \A j \in ReqSlots, k \in ReqSlots :
    (j # k /\ reqs[j].pc = "gen" /\ reqs[k].pc = "gen") => reqs[j].sid # reqs[k].sid

\* the call in slot k has invoked the context factory and not yet returned
FactoryInvoked(k) == calls[k].pc \in {"awaitCtx", "awaitChat"}

\* C12: when getSession calls on one absent id overlap, the context factory is
\* invoked only once for that id (the later call shares the pair of the
\* earlier one): no two calls in flight on one id have each invoked it.
C12_OneContextPerId ==
  \A j \in Slots, k \in Slots :
    (j # k /\ FactoryInvoked(j) /\ FactoryInvoked(k)) => calls[j].id # calls[k].id

\* C13: under any interleaving of getSession calls, every pair in the registry
\* and every pair a call returns has its context and its chat handle both
\* constructed, the chat handle being the one derived from that context.
C13_NoHalfInitialized ==
  /\ \A i \in 1..Len(llamaSessions) :
       /\ llamaSessions[i].context \in 1..(nextCtx - 1)
       /\ llamaSessions[i].chat # 0
       /\ llamaSessions[i].chat = ChatOf(llamaSessions[i].context)
  /\ ret # NoRet =>
       /\ ret.context \in 1..(nextCtx - 1)
       /\ ret.chat # 0
       /\ ret.chat = ChatOf(ret.context)

\* a call reads the pair of an id from the registry while another call on the
\* same id is still between its two factories
C13_Witness ==
  /\ ret.hit
  /\ \E k \in Slots : calls[k].pc = "awaitChat" /\ calls[k].id = ret.id

(***************************************************************************)
(* Statements about Router.classify                                        *)
(***************************************************************************)
\* the words of rules 7, 8 and 9
HowTopics == {<<"w", "o", "r", "k">> (* work *),
             <<"i", "m", "p", "l", "e", "m", "e", "n", "t">> (* implement *),
             <<"d", "e", "s", "i", "g", "n">> (* design *)}
CodingKeywords == {<<"c", "o", "d", "e">> (* code *),
                   <<"f", "u", "n", "c", "t", "i", "o", "n">> (* function *),
                   <<"c", "l", "a", "s", "s">> (* class *),
                   <<"a", "l", "g", "o", "r", "i", "t", "h", "m">> (* algorithm *),
                   <<"i", "m", "p", "l", "e", "m", "e", "n", "t">> (* implement *),
                   <<"d", "e", "b", "u", "g">> (* debug *)}
SimplicityQualifiers == {<<"s", "i", "m", "p", "l", "e">> (* simple *),
                         <<"b", "a", "s", "i", "c">> (* basic *),
                         <<"q", "u", "i", "c", "k">> (* quick *)}
ArithmeticCues == {<<"c", "a", "l", "c", "u", "l", "a", "t", "e">> (* calculate *),
                   <<"c", "o", "m", "p", "u", "t", "e">> (* compute *),
                   <<"+">>,
                   <<"-">>,
                   <<"*">>,
                   <<"/">>}

\* s contains one of the words
ContainsAny(s, words) == \E w \in words : Includes(s, w)

\* rule i of the cascade applies to the input s (matching is made on the
\* input in lower case and trimmed, the lengths are those of the input)
RuleHolds(i, s) ==
  LET t == Trim(ToLowerCase(s)) IN
  CASE i = 1 -> parseCommand(s) # NoCommand
    [] i = 2 -> ContainsAny(t, directCommandKeywords)
    [] i = 3 -> ContainsAny(t, hardKeywords)
    [] i = 4 -> Len(s) < 10
    [] i = 5 -> Len(s) > 200
    [] i = 6 -> StartsWithAny(t, factualPrefixes)
    [] i = 7 -> Includes(t, <<"h", "o", "w">>) /\ ContainsAny(t, HowTopics)
    [] i = 8 -> ContainsAny(t, CodingKeywords)
    [] i = 9 -> HasDigits(t) /\ ContainsAny(t, ArithmeticCues)
    [] i = 10 -> TRUE

\* the class and the confidence rule i gives
RuleDecision(i, s) ==
  CASE i = 1 -> <<"direct_command", 95>>
    [] i = 2 -> <<"direct_command", 90>>
    [] i = 3 -> <<"hard", 90>>
    [] i = 4 -> <<"trivial", 70>>
    [] i = 5 -> <<"hard", 80>>
    [] i = 6 -> <<"trivial", 80>>
    [] i = 7 -> <<"hard", 80>>
    [] i = 8 -> IF ContainsAny(Trim(ToLowerCase(s)), SimplicityQualifiers)
                  THEN <<"normal", 70>>
                  ELSE <<"hard", 80>>
    [] i = 9 -> <<"trivial", 80>>
    [] i = 10 -> <<"normal", 60>>

\* the lowest-numbered rule that applies
FirstRule(s) == CHOOSE i \in 1..10 : RuleHolds(i, s) /\ \A j \in 1..(i - 1) : ~RuleHolds(j, s)

C19_ClassifyTotal ==
  routeResult # NoResult =>
    /\ routeResult.class \in RouteClass
    /\ routeResult.confidence \in 0..100
    /\ routeResult.reasoning # ""

\* a whitespace-only input has been classified
C19_Witness ==
  /\ typed # << >> /\ Trim(typed) = << >>
  /\ routeResult.class = "trivial"

(***************************************************************************)
(* Claims about DeviceActions.parseCommand and the classifier's input      *)
(* normalisation                                                           *)
(***************************************************************************)
\* the text entered says the word kw, in any case
Says(kw) == Includes(ToLowerCase(typed), kw)

\* the number of the words of a set that the text entered says
VerbsSaid(kws) == Cardinality({kw \in kws : Says(kw)})

LightVerbs == {<<"t", "u", "r", "n", " ", "o", "n">> (* turn on *),
               <<"t", "u", "r", "n", " ", "o", "f", "f">> (* turn off *),
               <<"d", "i", "m">> (* dim *),
               <<"b", "r", "i", "g", "h", "t", "e", "n">> (* brighten *)}
MusicVerbs == {<<"p", "l", "a", "y">> (* play *),
               <<"p", "a", "u", "s", "e">> (* pause *)}

\* C21: the command extracted from an input names the verb the input says:
\* unlock gives unlock_doors and lock without unlock gives lock_doors, disarm
\* gives disarm and arm without disarm gives arm, and an input that says one
\* of turn on / turn off / dim / brighten, or one of play / pause, gives the
\* command of that verb.
C21_VerbsDistinguished ==
  LET cmd == routeResult.deviceCommand IN
  routeResult # NoResult =>
    /\ cmd.type = "security" =>
         /\ Says(<<"u", "n", "l", "o", "c", "k">> (* unlock *)) => cmd.action = "unlock_doors"
         /\ Says(<<"l", "o", "c", "k">> (* lock *)) /\ ~Says(<<"u", "n", "l", "o", "c", "k">> (* unlock *))
              => cmd.action = "lock_doors"
         /\ Says(<<"d", "i", "s", "a", "r", "m">> (* disarm *)) /\ ~Says(<<"l", "o", "c", "k">> (* lock *))
              => cmd.action = "disarm"
         /\ Says(<<"a", "r", "m">> (* arm *)) /\ ~Says(<<"d", "i", "s", "a", "r", "m">> (* disarm *))
              /\ ~Says(<<"l", "o", "c", "k">> (* lock *)) => cmd.action = "arm"
    /\ cmd.type = "lights" /\ VerbsSaid(LightVerbs) = 1 =>
         /\ Says(<<"t", "u", "r", "n", " ", "o", "n">> (* turn on *)) => cmd.action = "turn_on"
         /\ Says(<<"t", "u", "r", "n", " ", "o", "f", "f">> (* turn off *)) => cmd.action = "turn_off"
         /\ Says(<<"d", "i", "m">> (* dim *)) => cmd.action = "dim"
         /\ Says(<<"b", "r", "i", "g", "h", "t", "e", "n">> (* brighten *)) => cmd.action = "brighten"
    /\ cmd.type = "music" /\ VerbsSaid(MusicVerbs) = 1 =>
         /\ Says(<<"p", "l", "a", "y">> (* play *)) => cmd.action = "play"
         /\ Says(<<"p", "a", "u", "s", "e">> (* pause *)) => cmd.action = "pause"

\* the one rationale of classify that mentions calculation
MentionsCalculation(reasoning) == reasoning = "Simple calculation"

\* C22: an input with a digit and an arithmetic cue that is no device
\* command and has no direct-command or complexity keyword is classified
\* trivial with a rationale that mentions calculation.
C22_CalculationTrivial ==
  LET lower == Trim(ToLowerCase(typed)) IN
  (/\ routeResult # NoResult
   /\ HasDigits(lower) /\ ContainsAny(lower, ArithmeticCues)
   /\ parseCommand(typed) = NoCommand
   /\ ~ContainsAny(lower, directCommandKeywords)
   /\ ~ContainsAny(lower, hardKeywords))
    => /\ routeResult.class = "trivial"
       /\ MentionsCalculation(routeResult.reasoning)

\* C23: an input and the same input without its leading and trailing
\* whitespace are given the same class and the same confidence.
C23_TrimInvariant ==
  routeResult # NoResult =>
    /\ routeResult.class = classify(Trim(typed)).class
    /\ routeResult.confidence = classify(Trim(typed)).confidence

\* the capital of a small letter
UpperChar(ch) ==
    CASE ch = "a" -> "A"
      [] ch = "b" -> "B"
      [] ch = "c" -> "C"
      [] ch = "d" -> "D"
      [] ch = "e" -> "E"
      [] ch = "f" -> "F"
      [] ch = "g" -> "G"
      [] ch = "h" -> "H"
      [] ch = "i" -> "I"
      [] ch = "j" -> "J"
      [] ch = "k" -> "K"
      [] ch = "l" -> "L"
      [] ch = "m" -> "M"
      [] ch = "n" -> "N"
      [] ch = "o" -> "O"
      [] ch = "p" -> "P"
      [] ch = "q" -> "Q"
      [] ch = "r" -> "R"
      [] ch = "s" -> "S"
      [] ch = "t" -> "T"
      [] ch = "u" -> "U"
      [] ch = "v" -> "V"
      [] ch = "w" -> "W"
      [] ch = "x" -> "X"
      [] ch = "y" -> "Y"
      [] ch = "z" -> "Z"
      [] OTHER -> ch

\* s with every letter made a capital
AllCapitals(s) == [i \in 1..Len(s) |-> UpperChar(s[i])]

\* s with the case of every letter changed
SwapCase(s) ==
  [i \in 1..Len(s) |-> IF UpperChar(s[i]) # s[i] THEN UpperChar(s[i]) ELSE LowerChar(s[i])]

\* s with the case of every letter at an odd place changed
SwapOdd(s) ==
  [i \in 1..Len(s) |-> IF i % 2 = 1 THEN SwapCase(<<s[i]>>)[1] ELSE s[i]]

\* C24: an input and the same input with letters changed in case are given
\* the same class, the same confidence and the same device command.
C24_CaseInsensitive ==
  routeResult # NoResult =>
    \A other \in {SwapCase(typed), SwapOdd(typed)} :
      LET result == classify(other) IN
      /\ result.class = routeResult.class
      /\ result.confidence = routeResult.confidence
      /\ result.deviceCommand = routeResult.deviceCommand

\* a text with capitals and small letters has been classified as the device
\* command its words name, and so are its variants
C24_Witness ==
  /\ routeResult.class = "direct_command" /\ routeResult.deviceCommand # NoCommand
  /\ typed # ToLowerCase(typed) /\ typed # AllCapitals(typed)
  /\ classify(SwapCase(typed)).deviceCommand = routeResult.deviceCommand
  /\ SwapCase(typed) # typed

(***************************************************************************)
(* Claims about the replies of the /chat handler                           *)
(***************************************************************************)
\* an assistant reply is appended only by the step that ends its request
\* (the stream's done, or the device command's result), never mid-stream
C25_AppendOnlyAtDone ==
  [][replies' # replies =>
       \E k \in ReqSlots :
         /\ reqs[k].pc \in {"gen", "device"} /\ reqs'[k].pc = "idle"
         /\ replies' = Append(replies, replies'[Len(replies')])
         /\ replies'[Len(replies')].sid = reqs[k].sid
         /\ replies'[Len(replies')].arrival = reqs[k].arrival]_vars

\* C25: the replies appended to the transcript of one session are appended
\* in the order in which their requests arrived.
C25_RepliesInArrivalOrder ==
  \A i, j \in 1..Len(replies) :
    (i < j /\ replies[i].sid = replies[j].sid) => replies[i].arrival < replies[j].arrival

\* C26: the content of the assistant message appended when a generation
\* completes is the concatenation of the texts of the stream's token events.
C26_ContentIsTokenTexts ==
  \A i \in 1..Len(replies) :
    replies[i].type = "llm" => replies[i].content = replies[i].texts

(***************************************************************************)
(* Claims about the two registries of SessionManager.ts                    *)
(***************************************************************************)
\* C27: a step that changes the transcript registry (creation, capacity
\* eviction, reset) leaves the generation-context registry as it was, and a
\* step that changes the generation-context registry (insertion, eviction)
\* leaves the transcript registry as it was.
C27_IndependentLifetimes ==
  [][/\ sessions' # sessions => llamaSessions' = llamaSessions
     /\ llamaSessions' # llamaSessions => sessions' = sessions]_vars

\* a transcript has just been evicted for capacity while the generation
\* contexts registry is full and still holds the context of a session
\* that has no transcript
C27_Witness ==
  /\ hist.evicted >= 1
  /\ Len(sessions) = maxSessions
  /\ Len(llamaSessions) = maxContexts
  /\ \E i \in 1..Len(llamaSessions) :
       \E id \in SessionIds : ToString(id) = llamaSessions[i].id /\ ~Has(sessions, id)

\* C28: getOrCreate(id) on an absent id creates a session whose transcript is
\* exactly one system message; on a present id it keeps the session's
\* messages and every other session and sets its lastAccessedAt to the
\* present time; reset(id) removes the session and no other, so that the
\* getOrCreate(id) made next, the id being absent, again yields a transcript
\* of exactly one system message.
C28_Creation ==
  \A id \in SessionIds :
    ~Has(sessions, id) =>
      LET S1 == AfterGetOrCreate(sessions, id, now) IN
      Has(S1, id) /\ Stored(S1, id).messages = <<"system">>

C28_Step ==
  \A id \in SessionIds :
    /\ (Has(sessions, id) /\ GetOrCreate(id)) =>
         /\ Has(sessions', id)
         /\ Stored(sessions', id).messages = Stored(sessions, id).messages
         /\ Stored(sessions', id).lastAccessedAt = now
         /\ Ids(sessions') = Ids(sessions)
         /\ \A i \in 1..Len(sessions) : sessions[i].id # id => sessions'[i] = sessions[i]
    /\ Reset(id) =>
         /\ ~Has(sessions', id)
         /\ Len(sessions') >= Len(sessions) - 1
         /\ \A i \in 1..Len(sessions') : sessions'[i] \in Range(sessions)

C28_GetOrCreateReset == [](C28_Creation) /\ [][C28_Step]_vars

\* after an append was made a session was reset, and the registry holds one
\* session, whose transcript is one system message
C28_Witness ==
  /\ hist.appended = 1 /\ now = 0
  /\ Len(sessions) = 1
  /\ sessions[1].messages = <<"system">>

\* the registry right after the session of a new id was set, before cleanup
Overflowing(id) == Append(sessions, NewSession(id, now))

\* a step on which getOrCreate(id) created a session that left the registry
\* over maxSessions
CreationOverflows(id) ==
  /\ ~Has(sessions, id) /\ Has(sessions', id)
  /\ Len(Overflowing(id)) > maxSessions

\* C29: the capacity policy run after a creation that leaves the registry
\* over maxSessions removes every expired session; if the sessions that are
\* not expired still exceed maxSessions it removes more until the size is
\* maxSessions, and otherwise nothing more; no session is removed while a
\* session with a strictly older lastAccessedAt is kept.
C29_Step ==
  \A id \in SessionIds :
    CreationOverflows(id) =>
      LET S0 == Overflowing(id)
          idle(e) == now - e.lastAccessedAt > sessionTimeoutMs
          alive == SelectSeq(S0, LAMBDA e : ~idle(e))
          removed == {e \in Range(S0) : ~Has(sessions', e.id)}
          kept == {e \in Range(S0) : Has(sessions', e.id)}
      IN /\ \A e \in Range(S0) : idle(e) => e \in removed
         /\ IF Len(alive) > maxSessions
              THEN Len(sessions') = maxSessions
              ELSE Ids(sessions') = Ids(alive)
         /\ \A r \in removed, k \in kept : ~(k.lastAccessedAt < r.lastAccessedAt)

C29_CapacityPolicy == [][C29_Step]_vars

\* with no session expired, one session has been removed for capacity, and
\* the earliest-inserted session, accessed again since, has been kept
C29_Witness ==
  /\ hist.evicted = 1
  /\ now <= sessionTimeoutMs
  /\ Len(sessions) = maxSessions
  /\ sessions[1].lastAccessedAt > 0
  /\ sessions[1].lastAccessedAt < sessions[2].lastAccessedAt

\* C30: once a session has been idle for more than sessionTimeoutMs, a
\* getOrCreate, getMessages or append for its id sees a freshly created
\* transcript (one system message, then the message appended, if any), not
\* the earlier one, whatever the size of the registry.
C30_Step ==
  \A id \in SessionIds :
    (Has(sessions, id) /\ now - Stored(sessions, id).lastAccessedAt > sessionTimeoutMs) =>
      /\ (GetOrCreate(id) \/ GetMessages(id)) =>
           Has(sessions', id) /\ Stored(sessions', id).messages = <<"system">>
      /\ AppendUser(id) =>
           Has(sessions', id) /\ Stored(sessions', id).messages = <<"system", "user">>
      /\ AppendAssistant(id) =>
           Has(sessions', id) /\ Stored(sessions', id).messages = <<"system", "assistant">>

C30_ExpiredNotSeen == [][C30_Step]_vars

(***************************************************************************)
(* Claims about the health snapshot                                        *)
(***************************************************************************)
\* C31: the snapshot of getHealth reports the heavy engine as not
\* configured when there is none, as not ok when there is one whose
\* endpoint does not answer ok, and as ok only when there is one and its
\* endpoint answers ok.
C31_HeavyReadiness ==
  health.op = "getHealth" =>
    /\ ~heavyEngine => health.heavy = "null"
    /\ (heavyEngine /\ vllmServer # "ok") => health.heavy = "not_ok"
    /\ health.heavy = "ok" => (heavyEngine /\ vllmServer = "ok")

(***************************************************************************)
(* Claims about engine errors and direct commands                          *)
(***************************************************************************)
\* C32: when the Local engine's inference step failed during a call, the
\* dispatcher caught a failure of the Local engine (and so retried or
\* raised); the call did not simply end.
C32_InferenceErrorReachesDispatcher ==
  (lErr /\ gpc \in {"returned", "raised"}) =>
    \E i \in 1..Len(thrown) : thrown[i] \in {"local_first", "local_fallback"}

\* C33: a /chat request classified direct_command for which parseCommand
\* extracted no command is answered by engine generation, as it is by
\* generateStream: the handler does not take its device branch for it.
C33_KeywordCommandGenerates ==
  \A k \in ReqSlots : reqs[k].pc = "device" => reqs[k].cmd

(***************************************************************************)
(* Claims about the registry entry a session operation returns             *)
(***************************************************************************)
\* C34: the session that getOrCreate, appendUser, appendAssistant or
\* getMessages returns is in the registry under its id when the call
\* returns: the cleanup run by a creation does not remove the session just
\* created, and the message an append pushes is the last one of the
\* registered transcript.
C34_Returned ==
  \A id \in SessionIds :
    /\ Has(AfterGetOrCreate(sessions, id, now), id)
    /\ \A role \in {"user", "assistant"} :
         LET S1 == AfterAppend(sessions, id, now, role) IN
         /\ Has(S1, id)
         /\ Stored(S1, id).messages =
              Append(IF Has(sessions, id) THEN Stored(sessions, id).messages
                                          ELSE <<"system">>, role)

C34_Step ==
  \A id \in SessionIds :
    /\ (~Has(sessions, id) /\ (GetOrCreate(id) \/ GetMessages(id))) =>
         /\ Has(sessions', id)
         /\ Stored(sessions', id) = NewSession(id, now)
    /\ (hist'.appended = Appended + 1 /\ (AppendUser(id) \/ AppendAssistant(id))) =>
         /\ Has(sessions', id)
         /\ Len(Stored(sessions', id).messages) >= 2

C34_ReturnedIsRegistered == [](C34_Returned) /\ [][C34_Step]_vars

\* an append created a session in a full registry: one session was evicted
\* and the new one holds the system message and the appended one
C34_Witness ==
  /\ hist.appended = 1 /\ hist.evicted = 1
  /\ Len(sessions) = maxSessions
  /\ sessions[Len(sessions)].messages = <<"system", "user">>

(***************************************************************************)
(* Claims about the transcripts the /chat handlers leave                   *)
(***************************************************************************)
\* system, user, assistant, user, assistant, ...
Alternating(messages) ==
  /\ messages[1] = "system"
  /\ \A i \in 2..Len(messages) :
       messages[i] = IF i % 2 = 0 THEN "user" ELSE "assistant"

\* C35: each registered transcript is one system message followed by
\* strictly alternating user and assistant messages, whatever /chat and
\* /chat/clear requests overlapped, failed or reset the session.
C35_TranscriptsAlternate ==
  \A i \in 1..Len(sessions) : Alternating(sessions[i].messages)

(***************************************************************************)
(* Claims about the blank-prompt check of /chat                            *)
(***************************************************************************)
\* a prompt that is missing, empty or made of white space only
MissingOrBlank(prompt) ==
  ~prompt.given \/ \A i \in 1..Len(prompt.text) : IsSpace(prompt.text[i])

\* C39: a /chat request whose prompt is missing, empty or whitespace-only
\* is answered 400, and the step that answers 400 changes nothing else: no
\* session is created or touched, no message appended, no request started,
\* no classifier or engine call made.
C39_Rejected ==
  served < MaxChats =>
    \A sid \in ChatIds, prompt \in Prompts :
      MissingOrBlank(prompt) => ENABLED ChatReject(sid, prompt)

C39_Step ==
  rejected' # rejected =>
    /\ rejected' = rejected + 1
    /\ served' = served + 1
    /\ UNCHANGED <<sessionVars, reqs, replies, notChatVars>>

C39_BlankPromptRejected == [](C39_Rejected) /\ [][C39_Step]_vars

\* a request was answered 400 while another one was generating on a
\* registered session
C39_Witness ==
  /\ rejected = 1 /\ served = 2
  /\ Len(sessions) = 1
  /\ \E k \in ReqSlots : reqs[k].pc = "gen"

(***************************************************************************)
(* Claims about DeviceActions.executeCommand                               *)
(***************************************************************************)
UnknownAnswers ==
  {"Unknown light command", "Unknown thermostat command", "Unknown music command",
   "Unknown security command"}

\* C36: for the command parseCommand extracts from any input,
\* executeCommand answers with a result of the handler of the command's
\* type, which is none of the 'Unknown ... command' answers.
C36_ExecuteTotal ==
  LET command == parseCommand(typed) IN
  command # NoCommand =>
    LET result == executeCommand(command) IN
    /\ result.handler = command.type
    /\ result.handler \in {"lights", "thermostat", "music", "security"}
    /\ result.text \notin UnknownAnswers

\* a set-temperature command was extracted and is answered with its number
C36_Witness ==
  /\ routeResult.deviceCommand = DeviceCommand("thermostat", "set_temperature", <<70>>)
  /\ executeCommand(routeResult.deviceCommand) =
       Answer("thermostat", "Setting temperature to F", 70)

(***************************************************************************)
(* Claims about the speech output                                          *)
(***************************************************************************)
\* the calls whose player process runs
Playing == {k \in SpeakSlots : speaks[k] \in {"afplay", "say"}}

\* C37: at most one speech playback is in progress at any time, whatever
\* processAndSpeak and stopSpeaking calls interleave.
C37_OnePlayback == Cardinality(Playing) <= 1

(***************************************************************************)
(* Claims about WebFetch.fetchUrl                                          *)
(***************************************************************************)
\* what the call did, and the positions of the fetches it started
Done == fetching.done
Fetches == {i \in 1..Len(Done) : Done[i].type = "fetch"}
Over == fetching.pc \in {"returned", "raised"}

\* C38: fetchUrl starts at most maxRetries fetches; an OK response ends the
\* call, which returns it; a delay is waited between two fetches and none
\* after the last one; when every attempt failed the error raised carries
\* the message of the last failure.
C38_BoundedRetries ==
  /\ Cardinality(Fetches) <= fetching.maxRetries
  /\ \A i \in Fetches : Done[i].attempt = Cardinality({j \in Fetches : j <= i})
  /\ \A i \in 1..Len(Done) :
       /\ Done[i].type = "ok" => i = Len(Done) /\ fetching.pc = "returned"
       /\ (Done[i].type = "fetch" /\ i > 1) => Done[i - 1].type = "wait"
       /\ Done[i].type = "wait" =>
            /\ Done[i - 1].type = "fail"
            /\ IF i = Len(Done) THEN fetching.pc = "wait" ELSE Done[i + 1].type = "fetch"
       /\ (Done[i].type = "fail" /\ i < Len(Done)) => Done[i + 1].type = "wait"
  /\ fetching.pc = "returned" => Done[Len(Done)].type = "ok"
  /\ (fetching.pc = "raised" /\ fetching.maxRetries >= 1) =>
       /\ Cardinality(Fetches) = fetching.maxRetries
       /\ Done[Len(Done)].type = "fail"
       /\ fetching.raised = <<"Failed to fetch url: ", Done[Len(Done)].detail>>

\* three attempts failed, each for another reason, and the error raised
\* carries the message of the third
C38_Witness ==
  /\ fetching.pc = "raised" /\ fetching.maxRetries = 3
  /\ [i \in 1..Len(Done) |-> Done[i].type] =
       <<"fetch", "fail", "wait", "fetch", "fail", "wait", "fetch", "fail">>
  /\ Done[2].detail = "HTTP status" /\ Done[5].detail = "fetch failed"
  /\ fetching.raised = <<"Failed to fetch url: ", "Timeout after ms">>

====
